---------------------------- MODULE Spec2Model ----------------------------
(***************************************************************************)
(* A model of the attendance-roster parsing and classification core:       *)
(*   src/analyzer.py       AttendanceAnalyzer (code grammar, statistics)   *)
(*   src/pdf_extractor.py  RosterExtractor / AttendancePDFExtractor        *)
(*                                                                         *)
(* Python strings are modelled as sequences of one-character strings, so   *)
(* that strip, upper, startswith, split and replace are computed the way   *)
(* Python computes them.  A cell that is not a string (None, NaN, a        *)
(* number) is one of the distinguished one-element sequences below, whose  *)
(* element is longer than one character and so differs from every string.  *)
(***************************************************************************)
EXTENDS Integers, Sequences, FiniteSets, TLC

VARIABLES
    \* the cell handed to parse_attendance_code
    code_str,
    \* what that call returned (NotCalled before the call)
    parsed,
    \* one employee row of the analyzer's input table
    row,
    \* what calculate_employee_stats returned for it
    stats,
    \* which extractor: "roster" (RosterExtractor) or "trip"
    variant,
    \* the records parse_attendance_data hands to create_dataframe
    data,
    \* the extractor's self.df (NotCalled before create_dataframe)
    df,
    \* create_dataframe on the day codes read back from df
    df_again,
    \* the extractor's self.raw_tables: tables of rows of cells
    raw_tables,
    \* what parse_attendance_data returned (NotCalled before the call)
    all_data,
    \* the employee details workbook the lookup tables are loaded from
    details_file,
    \* the AttendanceAnalyzer built on df: its self.df and day_columns
    analyzer,
    \* what get_all_employee_stats returned or raised
    all_stats,
    \* what get_daily_attendance returned
    daily,
    \* what get_summary_insights returned or raised
    insights,
    \* what get_day_wise_trends returned or raised
    trends,
    \* what get_shift_analysis returned
    shift_dist,
    \* the table handed to the roster report generator
    report_df,
    \* the order in which the process iterates the set LEAVE_CODES of the report
    set_order,
    \* the TrainOperationsRosterReportGenerator built on report_df
    report,
    \* what generate_summary_statistics returned
    summary,
    \* what generate_daily_trends returned
    daily_trends,
    \* what generate_shift_analysis returned
    shift_analysis,
    \* what generate_employee_details returned
    employee_details,
    \* the tables of the pages of the PDF file the extractor reads
    pdf,
    \* how many times extract_tables has run on the extractor
    extract_calls,
    \* the tables in memory, by address: the caller's and the analyzers' copies
    heap,
    \* the address of the analyzer's self.df (0 before the constructor)
    self_df

vars ==
    <<code_str, parsed, row, stats, variant, data, df, df_again, raw_tables,
      all_data, details_file, analyzer, all_stats, daily, insights, trends,
      shift_dist, report_df, set_order, report, summary, daily_trends,
      shift_analysis, employee_details, pdf, extract_calls, heap, self_df>>

---------------------------------------------------------------------------
(* Bounds of the model *)

\* longest free suffix appended to a code token in the grammar inputs
MaxSuffixLen == 3

\* number of Day_ columns of the analyzed table
MaxDays == 5

\* most records in one batch handed to create_dataframe
MaxRecords == 6

---------------------------------------------------------------------------
(* Python values *)

PyNone == <<"None">>
NaN == <<"float nan">>
Int0 == <<"int 0">>
Int5 == <<"int 5">>

NonStrings == {PyNone, NaN, Int0, Int5}

NotCalled == [called |-> FALSE]

\* str(x)
str(x) ==
    CASE x = PyNone -> <<"N", "o", "n", "e">>
      [] x = NaN -> <<"n", "a", "n">>
      [] x = Int0 -> <<"0">>
      [] x = Int5 -> <<"5">>
      [] OTHER -> x

\* bool(x): the truth value Python gives `x` in `not x`, `if x`
truthy(x) ==
    CASE x = PyNone -> FALSE
      [] x = Int0 -> FALSE
      [] x = NaN -> TRUE
      [] x = Int5 -> TRUE
      [] OTHER -> x # <<>>

\* pd.isna(x) of a scalar
isna(x) == x \in {PyNone, NaN}

\* isinstance(x, str)
isinstance_str(x) == x \notin NonStrings

Whitespace == {" ", "\n", "\r", "\t"}

\* s.strip()
strip(s) ==
    LET keep == {i \in 1..Len(s) : s[i] \notin Whitespace}
    IN  IF keep = {} THEN <<>>
        ELSE LET lo == CHOOSE i \in keep : \A j \in keep : i <= j
                 hi == CHOOSE i \in keep : \A j \in keep : i >= j
             IN  SubSeq(s, lo, hi)

LowerToUpper ==
    [a |-> "A", b |-> "B", c |-> "C", d |-> "D", e |-> "E", f |-> "F",
     g |-> "G", h |-> "H", i |-> "I", j |-> "J", k |-> "K", l |-> "L",
     m |-> "M", n |-> "N", o |-> "O", p |-> "P", q |-> "Q", r |-> "R",
     s |-> "S", t |-> "T", u |-> "U", v |-> "V", w |-> "W", x |-> "X",
     y |-> "Y", z |-> "Z"]

\* s.upper()
upper(s) ==
    [i \in 1..Len(s) |->
        IF s[i] \in DOMAIN LowerToUpper THEN LowerToUpper[s[i]] ELSE s[i]]

\* s.startswith(p)
startswith(s, p) == Len(s) >= Len(p) /\ SubSeq(s, 1, Len(p)) = p

\* s.find(c) + 1 for a one-character c: the first position of c, 0 if none
find(s, c) ==
    IF \E i \in 1..Len(s) : s[i] = c
    THEN CHOOSE i \in 1..Len(s) : s[i] = c /\ \A j \in 1..(i - 1) : s[j] # c
    ELSE 0

\* s.replace(old, ''): the non-overlapping occurrences of old, left to right
RECURSIVE remove(_, _)
remove(s, old) ==
    IF Len(s) < Len(old) THEN s
    ELSE IF SubSeq(s, 1, Len(old)) = old
         THEN remove(SubSeq(s, Len(old) + 1, Len(s)), old)
         ELSE <<Head(s)>> \o remove(Tail(s), old)

\* s.replace(c, ' ') for a one-character c
replace_char(s, c, d) == [i \in 1..Len(s) |-> IF s[i] = c THEN d ELSE s[i]]

---------------------------------------------------------------------------
(* AttendanceAnalyzer: the code tables *)

SHIFT_CODES == {"M", "E", "N", "G"}

LEAVE_CODES ==
    {<<"S", "L">>, <<"C", "L">>, <<"E", "L">>, <<"O", "H">>, <<"C", "O">>,
     <<"P", "H">>}

---------------------------------------------------------------------------
(* AttendanceAnalyzer.parse_attendance_code *)

\* the dict the function returns; shift is "None" or a shift letter,
\* station is PyNone or a string
ParsedCode(shift, station, is_leave, is_absent, is_weekly_off, raw_code) ==
    [shift |-> shift, station |-> station, is_leave |-> is_leave,
     is_absent |-> is_absent, is_weekly_off |-> is_weekly_off,
     raw_code |-> raw_code]

\* a call that ends in an exception instead of returning
Raised(e) == [exception |-> e]

\* extract_station keeping the text before the colon as it is
extract_station_unstripped(code) ==
    IF find(code, "-") = 0 THEN PyNone
    ELSE LET station_part == SubSeq(code, find(code, "-") + 1, Len(code))
         IN  IF find(station_part, ":") # 0
             THEN SubSeq(station_part, 1, find(station_part, ":") - 1)
             ELSE station_part

\* lines 209-220: the station of a shift code
extract_station(code) ==
    IF find(code, "-") = 0 THEN PyNone
    ELSE LET station_part == SubSeq(code, find(code, "-") + 1, Len(code))
         IN  IF find(station_part, ":") # 0
             THEN remove(remove(SubSeq(station_part, 1,
                                       find(station_part, ":") - 1),
                                <<"0", "0">>),
                         <<"-">>)
             ELSE station_part

\* classify_text testing the shift letter before the leave codes
classify_text_shift_first(code) ==
    IF code = <<"W", "O">> \/ startswith(code, <<"W", "O", "-">>)
            \/ startswith(code, <<"W", "O", " ">>)
    THEN ParsedCode("None", PyNone, FALSE, FALSE, TRUE, code)
    ELSE IF code = <<"A", "B">> \/ startswith(code, <<"A", "B", "-">>)
            \/ startswith(code, <<"A", "B", " ">>)
    THEN ParsedCode("None", PyNone, FALSE, TRUE, FALSE, code)
    ELSE IF code = <<>> THEN Raised("IndexError")
    ELSE IF code[1] \in SHIFT_CODES
    THEN ParsedCode(code[1], extract_station(code), FALSE, FALSE, FALSE, code)
    ELSE IF \E leave_code \in LEAVE_CODES :
                \/ code = leave_code
                \/ /\ Len(code) >= Len(leave_code)
                   /\ SubSeq(code, 1, Len(leave_code)) = leave_code
    THEN ParsedCode("None", PyNone, TRUE, FALSE, FALSE, code)
    ELSE ParsedCode("None", PyNone, FALSE, FALSE, FALSE, code)

\* classify_text matching a leave code only when the whole text equals it
classify_text_exact_leave(code) ==
    IF code = <<"W", "O">> \/ startswith(code, <<"W", "O", "-">>)
            \/ startswith(code, <<"W", "O", " ">>)
    THEN ParsedCode("None", PyNone, FALSE, FALSE, TRUE, code)
    ELSE IF code = <<"A", "B">> \/ startswith(code, <<"A", "B", "-">>)
            \/ startswith(code, <<"A", "B", " ">>)
    THEN ParsedCode("None", PyNone, FALSE, TRUE, FALSE, code)
    ELSE IF \E leave_code \in LEAVE_CODES : code = leave_code
    THEN ParsedCode("None", PyNone, TRUE, FALSE, FALSE, code)
    ELSE IF code = <<>> THEN Raised("IndexError")   \* code_str[0]
    ELSE IF code[1] \in SHIFT_CODES
    THEN ParsedCode(code[1], extract_station(code), FALSE, FALSE, FALSE, code)
    ELSE ParsedCode("None", PyNone, FALSE, FALSE, FALSE, code)

\* classify_text where a leave code that begins with a shift letter keeps
\* the shift it begins with
classify_text_leave_keeps_shift(code) ==
    IF code = <<"W", "O">> \/ startswith(code, <<"W", "O", "-">>)
            \/ startswith(code, <<"W", "O", " ">>)
    THEN ParsedCode("None", PyNone, FALSE, FALSE, TRUE, code)
    ELSE IF code = <<"A", "B">> \/ startswith(code, <<"A", "B", "-">>)
            \/ startswith(code, <<"A", "B", " ">>)
    THEN ParsedCode("None", PyNone, FALSE, TRUE, FALSE, code)
    ELSE IF \E leave_code \in LEAVE_CODES :
                \/ code = leave_code
                \/ /\ Len(code) >= Len(leave_code)
                   /\ SubSeq(code, 1, Len(leave_code)) = leave_code
    THEN ParsedCode(IF code[1] \in SHIFT_CODES THEN code[1] ELSE "None",
                    PyNone, TRUE, FALSE, FALSE, code)
    ELSE IF code = <<>> THEN Raised("IndexError")
    ELSE IF code[1] \in SHIFT_CODES
    THEN ParsedCode(code[1], extract_station(code), FALSE, FALSE, FALSE, code)
    ELSE ParsedCode("None", PyNone, FALSE, FALSE, FALSE, code)

\* lines 190-227: the rules applied to the stripped, upper-cased text
classify_text(code) ==
    IF code = <<"W", "O">> \/ startswith(code, <<"W", "O", "-">>)
            \/ startswith(code, <<"W", "O", " ">>)
    THEN ParsedCode("None", PyNone, FALSE, FALSE, TRUE, code)
    ELSE IF code = <<"A", "B">> \/ startswith(code, <<"A", "B", "-">>)
            \/ startswith(code, <<"A", "B", " ">>)
    THEN ParsedCode("None", PyNone, FALSE, TRUE, FALSE, code)
    ELSE IF \E leave_code \in LEAVE_CODES :
                \/ code = leave_code
                \/ /\ Len(code) >= Len(leave_code)
                   /\ SubSeq(code, 1, Len(leave_code)) = leave_code
    THEN ParsedCode("None", PyNone, TRUE, FALSE, FALSE, code)
    ELSE IF code = <<>> THEN Raised("IndexError")   \* code_str[0]
    ELSE IF code[1] \in SHIFT_CODES
    THEN ParsedCode(code[1], extract_station(code), FALSE, FALSE, FALSE, code)
    ELSE ParsedCode("None", PyNone, FALSE, FALSE, FALSE, code)

EmptyCode == ParsedCode("None", PyNone, FALSE, FALSE, FALSE, <<>>)

\* parse_attendance_code without the second emptiness test (lines 186-188)
parse_attendance_code_unguarded(cell) ==
    IF ~truthy(cell) \/ isna(cell) THEN EmptyCode
    ELSE classify_text(upper(strip(str(cell))))

parse_attendance_code(cell) ==
    IF ~truthy(cell) \/ isna(cell) THEN EmptyCode
    ELSE LET code == upper(strip(str(cell)))
         IN  IF code = <<>> THEN EmptyCode
             ELSE classify_text(code)

---------------------------------------------------------------------------
(* The cells the grammar is run on *)

\* every token a rule of the grammar tests for, in both cases, and tokens
\* that match no rule
CodeTokens ==
    {<<>>, <<"W", "O">>, <<"w", "o">>, <<"A", "B">>, <<"a", "b">>,
     <<"S", "L">>, <<"C", "L">>, <<"E", "L">>, <<"O", "H">>, <<"C", "O">>,
     <<"P", "H">>, <<"s", "l">>, <<"M">>, <<"E">>, <<"N">>, <<"G">>,
     <<"m">>, <<"X">>, <<"W">>}

SuffixChars == {"-", " ", ":", "0", "1", "X", "\n"}

Suffixes == UNION {[1..n -> SuffixChars] : n \in 0..MaxSuffixLen}

LeadingSpace == {<<>>, <<" ">>}

M_NASH == <<"M", "-", "N", "A", "S", "H">>
E_NASH == <<"E", "-", "N", "A", "S", "H">>
N_RITH_TIMED ==
    <<"N", "-", "R", "I", "T", "H", "2", "2", ":", "0", "0", "-", "0", "7",
      ":", "0", "0">>

WO_X == <<"w", "o", "-", "x">>
G_TIMED == <<"G", "-", "A", "0", "0", "-", "B", ":", "1", "5">>

CodeCells ==
    NonStrings
    \cup {M_NASH, N_RITH_TIMED, WO_X, G_TIMED}
    \cup {lead \o token \o suffix :
            lead \in LeadingSpace, token \in CodeTokens, suffix \in Suffixes}

---------------------------------------------------------------------------
(* Specification of the grammar: a cell is chosen, then parsed *)

InitCode ==
    /\ code_str \in CodeCells
    /\ parsed = NotCalled
    /\ row = <<>>
    /\ stats = NotCalled
    /\ variant = "roster"
    /\ data = <<>>
    /\ df = NotCalled
    /\ df_again = NotCalled
    /\ raw_tables = <<>>
    /\ all_data = NotCalled
    /\ details_file = [exists |-> FALSE]
    /\ analyzer = NotCalled
    /\ all_stats = NotCalled
    /\ daily = NotCalled
    /\ insights = NotCalled
    /\ trends = NotCalled
    /\ shift_dist = NotCalled
    /\ report_df = [columns |-> <<>>, rows |-> <<>>]
    /\ set_order = <<>>
    /\ report = NotCalled
    /\ summary = NotCalled
    /\ daily_trends = NotCalled
    /\ shift_analysis = NotCalled
    /\ employee_details = NotCalled
    /\ pdf = <<>>
    /\ extract_calls = 0
    /\ heap = <<>>
    /\ self_df = 0

ParseAttendanceCode ==
    /\ parsed = NotCalled
    /\ parsed' = parse_attendance_code(code_str)
    /\ UNCHANGED <<code_str, row, stats, variant, data, df, df_again,
                   raw_tables, all_data, details_file, analyzer, all_stats,
                   daily, insights, trends, shift_dist, report_df, set_order,
                   report, summary, daily_trends, shift_analysis,
                   employee_details, pdf, extract_calls, heap, self_df>>

NextCode == ParseAttendanceCode

SpecCode == InitCode /\ [][NextCode]_vars

---------------------------------------------------------------------------
(* Properties of the grammar *)

\* the text the rules are applied to
NormalizedText(cell) == upper(strip(str(cell)))

\* s = p followed by anything
HasPrefix(s, p) == \E n \in 0..Len(s) : SubSeq(s, 1, n) = p

IsMissing(cell) ==
    \/ cell \in {PyNone, NaN, Int0}
    \/ cell = <<>>
    \/ NormalizedText(cell) = <<>>

MatchesWeeklyOff(t) ==
    t = <<"W", "O">> \/ HasPrefix(t, <<"W", "O", "-">>)
        \/ HasPrefix(t, <<"W", "O", " ">>)

MatchesAbsent(t) ==
    t = <<"A", "B">> \/ HasPrefix(t, <<"A", "B", "-">>)
        \/ HasPrefix(t, <<"A", "B", " ">>)

MatchesLeave(t) == \E L \in LEAVE_CODES : HasPrefix(t, L)

MatchesShift(t) == Len(t) > 0 /\ t[1] \in {"M", "E", "N", "G"}

\* the first rule, in the documented priority order, that the cell matches
FirstMatch(cell) ==
    LET t == NormalizedText(cell)
    IN  CASE IsMissing(cell) -> "Empty"
          [] ~IsMissing(cell) /\ MatchesWeeklyOff(t) -> "WeeklyOff"
          [] ~IsMissing(cell) /\ ~MatchesWeeklyOff(t) /\ MatchesAbsent(t)
                -> "Absent"
          [] ~IsMissing(cell) /\ ~MatchesWeeklyOff(t) /\ ~MatchesAbsent(t)
                /\ MatchesLeave(t) -> "Leave"
          [] ~IsMissing(cell) /\ ~MatchesWeeklyOff(t) /\ ~MatchesAbsent(t)
                /\ ~MatchesLeave(t) /\ MatchesShift(t) -> "Shift"
          [] OTHER -> "Unknown"

\* the flags a result of each kind carries, and no other
HasKind(p, kind) ==
    /\ p.is_weekly_off = (kind = "WeeklyOff")
    /\ p.is_absent = (kind = "Absent")
    /\ p.is_leave = (kind = "Leave")
    /\ (p.shift # "None") = (kind = "Shift")
    /\ (p.raw_code = <<>>) = (kind = "Empty")

Returned(r) == r # NotCalled /\ "exception" \notin DOMAIN r

\* C4: the result is decided by the first rule, in the order Empty,
\* WeeklyOff, Absent, Leave, Shift, Unknown, that the upper-cased, stripped
\* input matches; "wo-x" is WeeklyOff, "ab " is Absent, and a code starting
\* with a leave code is Leave even when its first letter is a shift letter.
C4_FirstMatchingRuleDecides ==
    parsed # NotCalled =>
        /\ Returned(parsed)
        /\ HasKind(parsed, FirstMatch(code_str))
        /\ code_str = WO_X => parsed.is_weekly_off
        /\ code_str = <<"a", "b", " ">> => parsed.is_absent
        /\ (HasPrefix(code_str, <<"E", "L">>)
              \/ HasPrefix(code_str, <<"C", "O">>))
            => parsed.is_leave /\ parsed.shift = "None"

C4_Witness ==
    /\ code_str = <<"E", "L", "-", "X">>
    /\ Returned(parsed)
    /\ parsed.is_leave

\* C5: for every leave code L and every suffix s, the result for L + s has
\* is_leave = True, shift = None, is_absent = False, is_weekly_off = False.
C5_LeavePrefixIsLeave ==
    (parsed # NotCalled /\ \E L \in LEAVE_CODES : HasPrefix(code_str, L)) =>
        /\ Returned(parsed)
        /\ parsed.is_leave
        /\ parsed.shift = "None"
        /\ ~parsed.is_absent
        /\ ~parsed.is_weekly_off

C5_Witness ==
    /\ code_str = <<"S", "L", "1">>
    /\ Returned(parsed)
    /\ parsed.is_leave

\* the text after the first hyphen of t: t = a \o "-" \o b with no hyphen in a
AfterFirstHyphen(t, b) ==
    \E i \in 1..Len(t) :
        /\ t[i] = "-"
        /\ \A j \in 1..(i - 1) : t[j] # "-"
        /\ b = SubSeq(t, i + 1, Len(t))

BeforeFirstColon(t, a) ==
    \E i \in 1..Len(t) :
        /\ t[i] = ":"
        /\ \A j \in 1..(i - 1) : t[j] # ":"
        /\ a = SubSeq(t, 1, i - 1)

\* s with each "00" deleted, scanning from position i
RECURSIVE Without00From(_, _)
Without00From(s, i) ==
    IF i > Len(s) THEN <<>>
    ELSE IF i < Len(s) /\ s[i] = "0" /\ s[i + 1] = "0"
         THEN Without00From(s, i + 2)
         ELSE <<s[i]>> \o Without00From(s, i + 1)

WithoutHyphens(s) == SelectSeq(s, LAMBDA c : c # "-")

IsEmptyClassification(p) ==
    /\ p.shift = "None"
    /\ p.station = PyNone
    /\ ~p.is_leave /\ ~p.is_absent /\ ~p.is_weekly_off
    /\ p.raw_code = <<>>

WhitespaceOnly(cell) ==
    isinstance_str(cell) /\ \A i \in 1..Len(cell) : cell[i] \in Whitespace

\* C7: the call never raises; "", None, NaN and whitespace-only text give
\* the Empty classification with raw_code "", and a non-string cell is
\* classified from its string form.
C7_NeverRaises ==
    parsed # NotCalled =>
        /\ "exception" \notin DOMAIN parsed
        /\ DOMAIN parsed = {"shift", "station", "is_leave", "is_absent",
                            "is_weekly_off", "raw_code"}
        /\ (code_str \in {PyNone, NaN} \/ WhitespaceOnly(code_str))
             => IsEmptyClassification(parsed)
        /\ code_str = Int5 =>
             parsed.raw_code = <<"5">> /\ HasKind(parsed, "Unknown")

C7_Witness ==
    /\ code_str = <<" ", " ", "\n">>
    /\ Returned(parsed)
    /\ IsEmptyClassification(parsed)

---------------------------------------------------------------------------
(* AttendanceAnalyzer.__init__ and calculate_employee_stats *)

\* lines 129-132: the cleaning of one Day_ cell when the analyzer is built
clean_cell(x) ==
    IF truthy(x) /\ ~isna(x)
    THEN strip(remove(remove(str(x), <<"\n">>), <<"\r">>))
    ELSE x

clean_row(r) == [r EXCEPT !.days = [i \in 1..Len(r.days) |-> clean_cell(r.days[i])]]

\* a rate is the exact quotient num / den of the float division
Rate(num, den) == [num |-> num, den |-> den]

\* attendance_rate dividing whenever the employee has any recorded day
attendance_rate_total_guard(total_days, present_days, expected_working_days) ==
    IF total_days > 0
    THEN Rate(present_days * 100, expected_working_days)
    ELSE Rate(0, 1)

\* attendance_rate giving 100 to an employee without expected working days
attendance_rate_full_when_idle(total_days, present_days, expected_working_days) ==
    IF expected_working_days > 0
    THEN Rate(present_days * 100, expected_working_days)
    ELSE Rate(100, 1)

\* lines 307-310
attendance_rate(total_days, present_days, expected_working_days) ==
    IF expected_working_days > 0
    THEN Rate(present_days * 100, expected_working_days)
    ELSE Rate(0, 1)

\* lines 261-272: the stats dict before the loop
initial_stats(r) ==
    [Employee |-> r.Employee,
     Personnel_Number |-> r.Personnel_Number,
     Total_Days |-> 0,
     Present_Days |-> 0,
     Absent_Days |-> 0,
     Leave_Days |-> 0,
     Weekly_Off |-> 0,
     Attendance_Rate |-> Rate(0, 1),
     Shift_Distribution |-> [c \in SHIFT_CODES |-> 0],
     Stations |-> {}]

\* lines 275-301: one turn of the loop over the day columns
tally_day(st, code) ==
    IF isna(code) \/ (isinstance_str(code) /\ strip(code) = <<>>) THEN st
    ELSE LET counted == [st EXCEPT !.Total_Days = @ + 1]
             p == parse_attendance_code(code)
         IN  IF p.is_weekly_off THEN [counted EXCEPT !.Weekly_Off = @ + 1]
             ELSE IF p.is_leave THEN [counted EXCEPT !.Leave_Days = @ + 1]
             ELSE IF p.is_absent THEN [counted EXCEPT !.Absent_Days = @ + 1]
             ELSE IF p.shift # "None"
             THEN [counted EXCEPT
                     !.Present_Days = @ + 1,
                     !.Shift_Distribution[p.shift] = @ + 1,
                     !.Stations =
                        IF p.station # PyNone /\ p.station # <<>>
                        THEN @ \cup {p.station} ELSE @]
             ELSE counted

\* lines 274-275: the loop over self.day_columns
RECURSIVE tally_days(_, _, _)
tally_days(st, days, i) ==
    IF i > Len(days) THEN st
    ELSE tally_days(tally_day(st, days[i]), days, i + 1)

\* calculate_employee_stats with the denominator Total_Days - Weekly_Off
calculate_employee_stats_leave_in_denominator(r) ==
    LET st == tally_days(initial_stats(r), r.days, 1)
        expected_working_days == st.Total_Days - st.Weekly_Off
    IN  [st EXCEPT !.Attendance_Rate =
            attendance_rate(st.Total_Days, st.Present_Days,
                            expected_working_days)]

\* lines 249-315; Stations is the set the loop collects: its final
\* rendering as a sorted, comma-joined text ('N/A' when empty) is not modelled
calculate_employee_stats(r) ==
    LET st == tally_days(initial_stats(r), r.days, 1)
        expected_working_days == st.Total_Days - st.Weekly_Off - st.Leave_Days
    IN  [st EXCEPT !.Attendance_Rate =
            attendance_rate(st.Total_Days, st.Present_Days,
                            expected_working_days)]

---------------------------------------------------------------------------
(* Specification of the per-employee statistics: an analyzer is built on   *)
(* one employee row, then calculate_employee_stats is called on it         *)

\* the cells of a day column: empty, missing, each class of code, and an
\* unknown code that the constructor has to clean
DayCells ==
    {<<>>, PyNone, <<"M">>, <<"W", "O">>, <<"S", "L">>, <<"A", "B">>, E_NASH,
     <<" ", "x", "\n">>}

InputRows ==
    {[Employee |-> "EMP-1", Personnel_Number |-> "1001", days |-> d] :
        d \in [1..MaxDays -> DayCells]}

InitStats ==
    /\ row \in {clean_row(r) : r \in InputRows}
    /\ stats = NotCalled
    /\ code_str = <<>>
    /\ parsed = NotCalled
    /\ variant = "roster"
    /\ data = <<>>
    /\ df = NotCalled
    /\ df_again = NotCalled
    /\ raw_tables = <<>>
    /\ all_data = NotCalled
    /\ details_file = [exists |-> FALSE]
    /\ analyzer = NotCalled
    /\ all_stats = NotCalled
    /\ daily = NotCalled
    /\ insights = NotCalled
    /\ trends = NotCalled
    /\ shift_dist = NotCalled
    /\ report_df = [columns |-> <<>>, rows |-> <<>>]
    /\ set_order = <<>>
    /\ report = NotCalled
    /\ summary = NotCalled
    /\ daily_trends = NotCalled
    /\ shift_analysis = NotCalled
    /\ employee_details = NotCalled
    /\ pdf = <<>>
    /\ extract_calls = 0
    /\ heap = <<>>
    /\ self_df = 0

CalculateEmployeeStats ==
    /\ stats = NotCalled
    /\ stats' = calculate_employee_stats(row)
    /\ UNCHANGED <<code_str, parsed, row, variant, data, df, df_again,
                   raw_tables, all_data, details_file, analyzer, all_stats,
                   daily, insights, trends, shift_dist, report_df, set_order,
                   report, summary, daily_trends, shift_analysis,
                   employee_details, pdf, extract_calls, heap, self_df>>

NextStats == CalculateEmployeeStats

SpecStats == InitStats /\ [][NextStats]_vars

---------------------------------------------------------------------------
(* Properties of the per-employee statistics *)

ExpectedWorkingDays(st) == st.Total_Days - st.Weekly_Off - st.Leave_Days

\* a rate in hundredths of a percent point, rounded to the nearest
Round2(r) == (2 * 100 * r.num + r.den) \div (2 * r.den)

RateEquals(r, num, den) == r.den > 0 /\ den > 0 /\ r.num * den = num * r.den

\* the days of the row are `codes`, followed by empty slots only
DaysAre(codes) ==
    /\ Len(row.days) >= Len(codes)
    /\ \A i \in 1..Len(row.days) :
         row.days[i] = IF i <= Len(codes) THEN codes[i] ELSE <<>>

IsUnknownCode(cell) ==
    /\ isinstance_str(cell)
    /\ FirstMatch(cell) = "Unknown"

\* C1: Present_Days + Absent_Days + Leave_Days + Weekly_Off = Total_Days
\* for every row.
C1_CountersSumToTotal ==
    stats # NotCalled =>
        stats.Present_Days + stats.Absent_Days + stats.Leave_Days
            + stats.Weekly_Off = stats.Total_Days

\* C2: expected = Total_Days - Weekly_Off - Leave_Days and Attendance_Rate =
\* Present_Days / expected * 100 when expected > 0, else 0.0; the two
\* example rows give the stated counts, with the rate as it reads to two
\* decimals (66.67 and 100.0).
C2_RateFormula ==
    stats # NotCalled =>
        /\ ExpectedWorkingDays(stats) > 0 =>
             RateEquals(stats.Attendance_Rate, stats.Present_Days * 100,
                        ExpectedWorkingDays(stats))
        /\ ExpectedWorkingDays(stats) <= 0 =>
             RateEquals(stats.Attendance_Rate, 0, 1)
        /\ DaysAre(<<(<<"M">>), (<<"W", "O">>), (<<"S", "L">>),
                     (<<"A", "B">>), (<<"M">>)>>) =>
             /\ stats.Total_Days = 5 /\ stats.Present_Days = 2
             /\ stats.Absent_Days = 1 /\ stats.Leave_Days = 1
             /\ stats.Weekly_Off = 1 /\ ExpectedWorkingDays(stats) = 3
             /\ Round2(stats.Attendance_Rate) = 6667
        /\ DaysAre(<<E_NASH, (<<"W", "O">>), (<<"W", "O">>), (<<"M">>),
                     (<<"M">>)>>) =>
             /\ stats.Total_Days = 5 /\ stats.Present_Days = 3
             /\ stats.Absent_Days = 0 /\ stats.Leave_Days = 0
             /\ stats.Weekly_Off = 2 /\ ExpectedWorkingDays(stats) = 3
             /\ RateEquals(stats.Attendance_Rate, 100, 1)

C2_Witness ==
    /\ stats # NotCalled
    /\ DaysAre(<<(<<"M">>), (<<"W", "O">>), (<<"S", "L">>), (<<"A", "B">>),
                 (<<"M">>)>>)
    /\ Round2(stats.Attendance_Rate) = 6667

\* C3: 0 <= Attendance_Rate <= 100, Present_Days never exceeds the expected
\* working days, and the rate is 0.0 whenever the expected working days
\* are <= 0.
C3_RateInRange ==
    stats # NotCalled =>
        /\ stats.Attendance_Rate.den > 0
        /\ 0 <= stats.Attendance_Rate.num
        /\ stats.Attendance_Rate.num <= 100 * stats.Attendance_Rate.den
        /\ stats.Present_Days <= ExpectedWorkingDays(stats)
        /\ ExpectedWorkingDays(stats) <= 0 =>
             RateEquals(stats.Attendance_Rate, 0, 1)

C3_Witness ==
    /\ stats # NotCalled
    /\ stats.Total_Days > 0
    /\ ExpectedWorkingDays(stats) = 0
    /\ RateEquals(stats.Attendance_Rate, 0, 1)

\* C8: a slot holding an Unknown code counts like an empty slot: putting
\* the empty string in its place leaves Total_Days, the four counters and
\* Attendance_Rate as they are.
C8_UnknownCountsAsEmpty ==
    stats # NotCalled =>
        \A i \in 1..Len(row.days) :
            IsUnknownCode(row.days[i]) =>
                LET other ==
                      calculate_employee_stats(
                          [row EXCEPT !.days[i] = <<>>])
                IN  /\ other.Total_Days = stats.Total_Days
                    /\ other.Present_Days = stats.Present_Days
                    /\ other.Absent_Days = stats.Absent_Days
                    /\ other.Leave_Days = stats.Leave_Days
                    /\ other.Weekly_Off = stats.Weekly_Off
                    /\ RateEquals(other.Attendance_Rate,
                                  stats.Attendance_Rate.num,
                                  stats.Attendance_Rate.den)

---------------------------------------------------------------------------
(* RosterExtractor.create_dataframe and AttendancePDFExtractor.create_dataframe *)

\* data[:5]
SampleSize == 5

\* time_pattern_count >= 3
TimeThreshold == 3

Digits == {"0", "1", "2", "3", "4", "5", "6", "7", "8", "9"}

\* a key a row dict does not have
NoKey == <<"no key">>

Max(S) == CHOOSE x \in S : \A y \in S : y <= x

\* lines 117-118 / 311-312: val and ':' in val and
\* any(c.isdigit() for c in val.split(':')[0])
looks_like_time(val) ==
    /\ val # <<>>
    /\ find(val, ":") # 0
    /\ \E i \in 1..(find(val, ":") - 1) : val[i] \in Digits

\* lines 116 / 310: the last code of each of the first 5 records that has any
sample_last_values(batch) ==
    LET first == SubSeq(batch, 1, IF Len(batch) < SampleSize THEN Len(batch)
                                   ELSE SampleSize)
        with_codes == SelectSeq(first, LAMBDA rec : rec.Attendance_Codes # <<>>)
    IN  [i \in 1..Len(with_codes) |->
            with_codes[i].Attendance_Codes[Len(with_codes[i].Attendance_Codes)]]

\* is_paid_time_col with a threshold of 2 sampled values
is_paid_time_col_two(batch) ==
    LET sample == sample_last_values(batch)
    IN  Cardinality({i \in 1..Len(sample) : looks_like_time(sample[i])}) >= 2

\* lines 114-120 / 308-314
is_paid_time_col(batch) ==
    LET sample == sample_last_values(batch)
    IN  Cardinality({i \in 1..Len(sample) : looks_like_time(sample[i])})
            >= TimeThreshold

\* max_days without the decrement of lines 120-121 / 314-315
max_days_of_undecremented(batch) ==
    Max({Len(batch[i].Attendance_Codes) : i \in 1..Len(batch)})

\* lines 112-121 / 306-315
max_days_of(batch) ==
    Max({Len(batch[i].Attendance_Codes) : i \in 1..Len(batch)})
        - (IF is_paid_time_col(batch) THEN 1 ELSE 0)

\* the row dict without the loop of lines 140-141 / 367-368
row_dict_unpadded(kind, record, paid, max_days) ==
    LET codes == record.Attendance_Codes
        cut == paid /\ Len(codes) > max_days
    IN  [Employee |-> record.Employee,
         Personnel_Number |-> record.Personnel_Number,
         Scheduling_Row |-> record.Scheduling_Row,
         Paid_Time |-> IF cut THEN codes[Len(codes)]
                       ELSE IF kind = "trip" THEN <<>> ELSE NoKey,
         Days |-> IF cut THEN SubSeq(codes, 1, max_days) ELSE codes]

\* the row dict that takes the last code of every record as paid time,
\* whatever the record's length
row_dict_cut_every_record(kind, record, paid, max_days) ==
    LET codes == record.Attendance_Codes
        cut == paid /\ codes # <<>>
        attendance_codes ==
            IF cut THEN SubSeq(codes, 1, Len(codes) - 1) ELSE codes
    IN  [Employee |-> record.Employee,
         Personnel_Number |-> record.Personnel_Number,
         Scheduling_Row |-> record.Scheduling_Row,
         Paid_Time |-> IF cut THEN codes[Len(codes)]
                       ELSE IF kind = "trip" THEN <<>> ELSE NoKey,
         Days |-> attendance_codes
                    \o [i \in 1..(max_days - Len(attendance_codes)) |-> <<>>]]

\* lines 125-141 / 332-368: the row dict of one record.  The trip-chart
\* variant also copies the record's Shift / Sign On / Sign Off columns,
\* which neither read nor write Paid_Time and the Day_ keys.
row_dict(kind, record, paid, max_days) ==
    LET codes == record.Attendance_Codes
        cut == paid /\ Len(codes) > max_days
        attendance_codes == IF cut THEN SubSeq(codes, 1, max_days) ELSE codes
    IN  [Employee |-> record.Employee,
         Personnel_Number |-> record.Personnel_Number,
         Scheduling_Row |-> record.Scheduling_Row,
         Paid_Time |-> IF cut THEN codes[Len(codes)]
                       ELSE IF kind = "trip" THEN <<>> ELSE NoKey,
         Days |-> attendance_codes
                    \o [i \in 1..(max_days - Len(attendance_codes)) |-> <<>>]]

\* pd.DataFrame(rows): the columns are the union of the rows' keys, and a
\* row without a key holds NaN in that column
DataFrame(rows) ==
    LET width ==
          IF rows = <<>> THEN 0
          ELSE Max({Len(rows[i].Days) : i \in 1..Len(rows)})
        has_paid == \E i \in 1..Len(rows) : rows[i].Paid_Time # NoKey
    IN  [day_columns |-> width,
         has_paid_time |-> has_paid,
         rows |->
            [i \in 1..Len(rows) |->
                [rows[i] EXCEPT
                    !.Paid_Time = IF @ = NoKey /\ has_paid THEN NaN ELSE @,
                    !.Days = @ \o [j \in 1..(width - Len(@)) |-> NaN]]]]

\* lines 105-146 / 299-373
create_dataframe(kind, batch) ==
    IF batch = <<>> THEN DataFrame(<<>>)
    ELSE LET paid == is_paid_time_col(batch)
             max_days == max_days_of(batch)
         IN  DataFrame([i \in 1..Len(batch) |->
                           row_dict(kind, batch[i], paid, max_days)])

---------------------------------------------------------------------------
(* Specification of create_dataframe: parse_attendance_data has returned a *)
(* batch of records, and create_dataframe builds self.df from it           *)

T0830 == <<"0", "8", ":", "3", "0">>
T0715 == <<"0", "7", ":", "1", "5">>
T0900 == <<"0", "9", ":", "0", "0">>

\* the code lists of a record: none (a trip-chart row of four cells), lists
\* of different lengths, with and without a time in the last place
CodeLists ==
    {<<>>,
     <<(<<"M">>)>>,
     <<(<<"M">>), T0830>>,
     <<(<<"E">>), (<<"M">>), (<<"1", "A", ":", "3", "0">>)>>,
     <<(<<"N">>), (<<>>), (<<"A", ":", "1", ":">>)>>}

EmployeeNames == <<"EMP-1", "EMP-2", "EMP-3", "EMP-4", "EMP-5", "EMP-6",
                   "EMP-7", "EMP-8">>

Record(i, codes) ==
    [Employee |-> EmployeeNames[i],
     Personnel_Number |-> "1001",
     Scheduling_Row |-> "SC",
     Attendance_Codes |-> codes]

\* five records whose last codes are 08:30, 07:15, 09:00, M, E
ExampleBatch ==
    <<Record(1, <<(<<"M">>), T0830>>), Record(2, <<(<<"M">>), T0715>>),
      Record(3, <<(<<"E">>), T0900>>), Record(4, <<(<<"W", "O">>), (<<"M">>)>>),
      Record(5, <<(<<"M">>), (<<"E">>)>>)>>

\* a roster whose last day holds shift codes with their timing, followed by
\* the paid-time column
TimedShiftBatch ==
    <<Record(1, <<(<<"M">>), N_RITH_TIMED, T0830>>),
      Record(2, <<(<<"E">>), G_TIMED, T0715>>),
      Record(3, <<(<<"M">>), N_RITH_TIMED, T0900>>)>>

\* the batch whose i-th record has the codes lists[i]
BatchOf(lists) == [i \in 1..Len(lists) |-> Record(i, lists[i])]

\* a roster row always has a code: its row has four cells or more and the
\* codes start at the fourth
InitFrame ==
    /\ variant \in {"roster", "trip"}
    /\ \/ data = ExampleBatch
       \/ data = TimedShiftBatch
       \/ \E n \in 0..MaxRecords :
            \E lists \in [1..n -> CodeLists] : data = BatchOf(lists)
    /\ variant = "roster" =>
         \A i \in 1..Len(data) : data[i].Attendance_Codes # <<>>
    /\ df = NotCalled
    /\ code_str = <<>>
    /\ parsed = NotCalled
    /\ row = <<>>
    /\ stats = NotCalled
    /\ df_again = NotCalled
    /\ raw_tables = <<>>
    /\ all_data = NotCalled
    /\ details_file = [exists |-> FALSE]
    /\ analyzer = NotCalled
    /\ all_stats = NotCalled
    /\ daily = NotCalled
    /\ insights = NotCalled
    /\ trends = NotCalled
    /\ shift_dist = NotCalled
    /\ report_df = [columns |-> <<>>, rows |-> <<>>]
    /\ set_order = <<>>
    /\ report = NotCalled
    /\ summary = NotCalled
    /\ daily_trends = NotCalled
    /\ shift_analysis = NotCalled
    /\ employee_details = NotCalled
    /\ pdf = <<>>
    /\ extract_calls = 0
    /\ heap = <<>>
    /\ self_df = 0

CreateDataframe ==
    /\ df = NotCalled
    /\ df' = create_dataframe(variant, data)
    /\ UNCHANGED <<code_str, parsed, row, stats, variant, data, df_again,
                   raw_tables, all_data, details_file, analyzer, all_stats,
                   daily, insights, trends, shift_dist, report_df, set_order,
                   report, summary, daily_trends, shift_analysis,
                   employee_details, pdf, extract_calls, heap, self_df>>

\* the records of a table that create_dataframe has built: each row's Day_
\* values are its codes
records_of(frame, batch) ==
    [i \in 1..Len(frame.rows) |->
        [batch[i] EXCEPT !.Attendance_Codes = frame.rows[i].Days]]

\* create_dataframe once more, on the day codes of the table it has built
CreateDataframeAgain ==
    /\ df # NotCalled
    /\ df_again = NotCalled
    /\ df_again' = create_dataframe(variant, records_of(df, data))
    /\ UNCHANGED <<code_str, parsed, row, stats, variant, data, df,
                   raw_tables, all_data, details_file, analyzer, all_stats,
                   daily, insights, trends, shift_dist, report_df, set_order,
                   report, summary, daily_trends, shift_analysis,
                   employee_details, pdf, extract_calls, heap, self_df>>

NextFrame == CreateDataframe \/ CreateDataframeAgain

SpecFrame == InitFrame /\ [][NextFrame]_vars

---------------------------------------------------------------------------
(* Properties of create_dataframe *)

LongestCodes == Max({Len(data[i].Attendance_Codes) : i \in 1..Len(data)})

\* the last raw codes of the first five records (of those that have codes)
SampledLastCodes ==
    {i \in 1..Len(data) : i <= 5 /\ data[i].Attendance_Codes # <<>>}

LastCode(i) == data[i].Attendance_Codes[Len(data[i].Attendance_Codes)]

\* v holds a colon with a digit immediately before it
DigitRightBeforeColon(v) ==
    \E j \in 2..Len(v) : v[j] = ":" /\ v[j - 1] \in Digits

\* v holds a colon, and a digit somewhere before its first colon
DigitBeforeFirstColon(v) ==
    \E j \in 1..Len(v) :
        /\ v[j] = ":"
        /\ \A k \in 1..(j - 1) : v[k] # ":"
        /\ \E k \in 1..(j - 1) : v[k] \in Digits

\* the trailing column was taken as paid time: one day column fewer than
\* the longest code list
PaidTimeFlagged == df.day_columns = LongestCodes - 1

Built == df # NotCalled /\ data # <<>>

\* C9: every record has exactly max_days day slots, max_days being the
\* longest raw-code length of the batch, minus one when the paid-time column
\* is detected; its codes stand in their original order and every missing
\* slot is the empty string.
C9_FixedWidthDaySlots ==
    Built =>
        LET detected ==
              Cardinality({i \in SampledLastCodes :
                              DigitBeforeFirstColon(LastCode(i))}) >= 3
            max_days == LongestCodes - (IF detected THEN 1 ELSE 0)
        IN  /\ df.day_columns = max_days
            /\ Len(df.rows) = Len(data)
            /\ \A i \in 1..Len(data) :
                 LET codes == data[i].Attendance_Codes
                     days == df.rows[i].Days
                 IN  /\ Len(days) = max_days
                     /\ \A j \in 1..max_days :
                          days[j] = IF j <= Len(codes) THEN codes[j] ELSE <<>>

C9_Witness ==
    /\ Built
    /\ PaidTimeFlagged
    /\ df.day_columns = 2
    /\ \E i \in 1..Len(data) :
         /\ Len(data[i].Attendance_Codes) = 1
         /\ df.rows[i].Days = <<data[i].Attendance_Codes[1], <<>>>>
    /\ \E i \in 1..Len(data) : df.rows[i].Days = <<(<<"E">>), (<<"M">>)>>

\* C10 as stated: the column is flagged if and only if at least 3 of the
\* last raw codes of the first 5 records hold a colon with a digit
\* immediately before it.
C10_FlaggedIffDigitRightBeforeColon ==
    Built =>
        (PaidTimeFlagged <=>
            Cardinality({i \in SampledLastCodes :
                            DigitRightBeforeColon(LastCode(i))}) >= 3)

\* C10, amended: the column is flagged, and max_days reduced by one, if and
\* only if at least 3 of the last raw codes of the first 5 records hold a
\* colon and a digit somewhere before their first colon; the last values
\* 08:30, 07:15, 09:00, M, E are flagged.
C10_FlaggedIffDigitBeforeFirstColon ==
    Built =>
        /\ PaidTimeFlagged <=>
             Cardinality({i \in SampledLastCodes :
                             DigitBeforeFirstColon(LastCode(i))}) >= 3
        /\ ~PaidTimeFlagged => df.day_columns = LongestCodes
        /\ data = ExampleBatch =>
             /\ PaidTimeFlagged
             /\ \A i \in 1..5 : df.rows[i].Paid_Time = LastCode(i)

C10_Witness ==
    /\ Built
    /\ data = ExampleBatch
    /\ PaidTimeFlagged
    /\ df.day_columns = 1

\* the last raw code of record i is its Paid_Time, and its day slots are its
\* other codes, in order, padded with empty strings
LastCodeTaken(i) ==
    LET codes == data[i].Attendance_Codes
    IN  /\ df.rows[i].Paid_Time = LastCode(i)
        /\ df.rows[i].Days =
             SubSeq(codes, 1, Len(codes) - 1)
                \o [j \in 1..(df.day_columns - (Len(codes) - 1)) |-> <<>>]

\* the day slots of record i are all its raw codes, in order, padded with
\* empty strings, and it has no Paid_Time value
AllCodesKept(i) ==
    LET codes == data[i].Attendance_Codes
    IN  /\ df.rows[i].Paid_Time = (IF variant = "trip" THEN <<>> ELSE NaN)
        /\ df.rows[i].Days =
             codes \o [j \in 1..(df.day_columns - Len(codes)) |-> <<>>]

\* C11 as stated: when the paid-time column is detected, the last raw code
\* of every record becomes its Paid_Time and stands in none of its Day_
\* slots, the records shorter than the longest one included.
C11_LastCodeOfEveryRecordIsPaidTime ==
    (Built /\ PaidTimeFlagged) =>
        \A i \in 1..Len(data) :
            data[i].Attendance_Codes # <<>> => LastCodeTaken(i)

\* C11, amended: when the paid-time column is detected, the last raw code of
\* every record of the longest length becomes its Paid_Time and stands in
\* none of its Day_ slots; a shorter record keeps all its raw codes, the
\* last one included, in its Day_ slots and has no Paid_Time value.
C11_LastCodeOfLongestRecordsIsPaidTime ==
    (Built /\ PaidTimeFlagged) =>
        \A i \in 1..Len(data) :
            IF Len(data[i].Attendance_Codes) = LongestCodes
            THEN LastCodeTaken(i)
            ELSE AllCodesKept(i)

C11_Witness ==
    /\ Built
    /\ PaidTimeFlagged
    /\ \E i \in 1..Len(data) :
         /\ Len(data[i].Attendance_Codes) = LongestCodes
         /\ df.rows[i].Paid_Time = LastCode(i)
    /\ \E i \in 1..Len(data) :
         /\ data[i].Attendance_Codes = <<(<<"M">>), T0830>>
         /\ df.rows[i].Days = <<(<<"M">>), T0830>>
         /\ LongestCodes = 3

\* at least 3 of the last day slots of the first 5 rows of the table hold a
\* colon and a digit somewhere before their first colon
LastDayLooksLikeTime ==
    /\ df.day_columns >= 1
    /\ Cardinality({i \in 1..Len(df.rows) :
                      /\ i <= 5
                      /\ DigitBeforeFirstColon(
                            df.rows[i].Days[df.day_columns])}) >= 3

BuiltAgain == Built /\ df_again # NotCalled

\* C12 as stated: create_dataframe on the day codes of a table it has built
\* returns the same day slots for every record: no column is added, removed
\* or moved to Paid_Time.
C12_NormalizationIdempotent ==
    BuiltAgain =>
        /\ df_again.day_columns = df.day_columns
        /\ \A i \in 1..Len(data) : df_again.rows[i].Days = df.rows[i].Days

\* C12, amended: create_dataframe on the day codes of a table it has built
\* returns the same day slots for every record, unless at least 3 of the
\* last day slots of the first 5 records hold a colon with a digit before
\* it; then the last day column is taken as paid time once more and the
\* table has one day column fewer.
C12_IdempotentUnlessLastDayLooksLikeTime ==
    BuiltAgain =>
        IF LastDayLooksLikeTime
        THEN /\ df_again.day_columns = df.day_columns - 1
             /\ \A i \in 1..Len(data) :
                  /\ df_again.rows[i].Days =
                       SubSeq(df.rows[i].Days, 1, df.day_columns - 1)
                  /\ df_again.rows[i].Paid_Time =
                       df.rows[i].Days[df.day_columns]
        ELSE /\ df_again.day_columns = df.day_columns
             /\ \A i \in 1..Len(data) :
                  df_again.rows[i].Days = df.rows[i].Days

C12_Witness ==
    /\ BuiltAgain
    /\ data = TimedShiftBatch
    /\ df.day_columns = 2
    /\ df_again.day_columns = 1
    /\ df_again.rows[1].Paid_Time = N_RITH_TIMED


---------------------------------------------------------------------------
(* parse_attendance_data: from the tables of the PDF to the records.       *)
(* Rows and columns are numbered from 0 as in the source: cell c of a row  *)
(* is row[c + 1].                                                          *)

\* most rows in the table that is enumerated
MaxRows == 3

Letters ==
    DOMAIN LowerToUpper \cup {LowerToUpper[c] : c \in DOMAIN LowerToUpper}

\* ' '.join(s.split()): the words of s joined by single spaces
join_split(s) ==
    LET t == strip(s)
        idx == SelectSeq([i \in 1..Len(t) |-> i],
                         LAMBDA i : \/ t[i] \notin Whitespace
                                    \/ t[i - 1] \notin Whitespace)
    IN  [k \in 1..Len(idx) |->
            IF t[idx[k]] \in Whitespace THEN " " ELSE t[idx[k]]]

IsDigitAt(s, i) == i >= 1 /\ i <= Len(s) /\ s[i] \in Digits

IsCharAt(s, i, c) == i >= 1 /\ i <= Len(s) /\ s[i] = c

\* the length of the longest run of characters of the set cs from position i
RunLength(s, i, cs) ==
    Max({n \in 0..(Len(s) - i + 1) : \A k \in i..(i + n - 1) : s[k] \in cs}
            \cup {0})

\* date_pattern.match(s), r'([A-Za-z]+\.?\s+\d{1,2}\.\d{2})': letters, an
\* optional dot, whitespace, one or two digits, a dot and two digits, at
\* the start of s
date_pattern_match(s) ==
    LET letters == RunLength(s, 1, Letters)
        dot == IF IsCharAt(s, letters + 1, ".") THEN 1 ELSE 0
        spaces == RunLength(s, letters + dot + 1, Whitespace)
        d == letters + dot + spaces + 1
    IN  /\ letters >= 1
        /\ spaces >= 1
        /\ \/ /\ IsDigitAt(s, d) /\ IsDigitAt(s, d + 1)
              /\ IsCharAt(s, d + 2, ".")
              /\ IsDigitAt(s, d + 3) /\ IsDigitAt(s, d + 4)
           \/ /\ IsDigitAt(s, d)
              /\ IsCharAt(s, d + 1, ".")
              /\ IsDigitAt(s, d + 2) /\ IsDigitAt(s, d + 3)

\* the length of the match of r'\d{1,2}:\d{2}' at position i, 0 if none
time_length(s, i) ==
    IF /\ IsDigitAt(s, i) /\ IsDigitAt(s, i + 1) /\ IsCharAt(s, i + 2, ":")
       /\ IsDigitAt(s, i + 3) /\ IsDigitAt(s, i + 4)
    THEN 5
    ELSE IF /\ IsDigitAt(s, i) /\ IsCharAt(s, i + 1, ":")
            /\ IsDigitAt(s, i + 2) /\ IsDigitAt(s, i + 3)
         THEN 4
         ELSE 0

\* the match of r'(\d{1,2}:\d{2})\s*-\s*(\d{1,2}:\d{2})' at position i:
\* where its second time starts and where the match ends (0, 0 if none)
timing_at(s, i) ==
    LET on == time_length(s, i)
        dash == i + on + RunLength(s, i + on, Whitespace)
        off == dash + 1 + RunLength(s, dash + 1, Whitespace)
    IN  IF on > 0 /\ IsCharAt(s, dash, "-") /\ time_length(s, off) > 0
        THEN [on_end |-> i + on - 1, off_start |-> off,
              end |-> off + time_length(s, off) - 1]
        ELSE [on_end |-> 0, off_start |-> 0, end |-> 0]

\* re.search of that pattern: the first position with a match, 0 if none
search_timing(s) ==
    IF \E i \in 1..Len(s) : timing_at(s, i).end > 0
    THEN CHOOSE i \in 1..Len(s) :
            /\ timing_at(s, i).end > 0
            /\ \A j \in 1..(i - 1) : timing_at(s, j).end = 0
    ELSE 0

\* re.sub of that pattern by ''
RECURSIVE sub_timing(_)
sub_timing(s) ==
    LET i == search_timing(s)
    IN  IF i = 0 THEN s
        ELSE SubSeq(s, 1, i - 1)
                \o sub_timing(SubSeq(s, timing_at(s, i).end + 1, Len(s)))

\* lines 66, 85 / 213, 246
HEADER_TOKENS ==
    {<<"E", "M", "P", "L", "O", "Y", "E", "E">>, <<>>, <<"N", "O", "N", "E">>}

\* lines 60-68 / 207-215: the index of the first row whose first cell is
\* text other than a header token, -1 standing for None
find_data_start(table) ==
    LET is_data(i) ==
          /\ table[i + 1] # <<>>
          /\ upper(strip(str(table[i + 1][1]))) \notin HEADER_TOKENS
    IN  IF \E i \in 0..(Len(table) - 1) : is_data(i)
        THEN CHOOSE i \in 0..(Len(table) - 1) :
                is_data(i) /\ \A j \in 0..(i - 1) : ~is_data(j)
        ELSE -1

\* lines 73 / 220: table[max(0, data_start-2):data_start]
header_rows_of(table, data_start) ==
    SubSeq(table, Max({0, data_start - 2}) + 1, data_start)

\* lines 222-234: the columns from 3 on of the first header row whose text
\* matches the date pattern, with that text
date_headers_of(header_rows) ==
    IF header_rows = <<>> THEN <<>>
    ELSE LET first == header_rows[1]
             header_val(c) ==
                 join_split(replace_char(replace_char(
                     strip(str(first[c + 1])), "\n", " "), "\r", " "))
             cols == {c \in 3..(Len(first) - 1) :
                         /\ strip(str(first[c + 1])) # <<>>
                         /\ date_pattern_match(header_val(c))}
         IN  [c \in cols |-> header_val(c)]

\* lines 79-80 / 240-241
employee_name_of(cell) ==
    IF truthy(cell)
    THEN join_split(replace_char(replace_char(
             strip(str(cell)), "\n", " "), "\r", " "))
    ELSE <<>>

\* lines 82-83 / 243-244: str(cell).strip() if cell else ""
text_of(cell) == IF truthy(cell) THEN strip(str(cell)) ELSE <<>>

\* the code without the replace calls of lines 92 / 284
code_of_newlines_kept(cell) == strip(text_of(cell))

\* lines 91-92 / 283-284
code_of(cell) == strip(remove(remove(text_of(cell), <<"\n">>), <<"\r">>))

\* lines 254-277: the shift, sign-on and sign-off of one shift cell
shift_of(cell) ==
    LET col_val == IF truthy(cell) THEN str(cell) ELSE <<>>
        i == search_timing(col_val)
    IN  IF i = 0
        THEN [shift |-> strip(col_val), sign_on |-> <<>>, sign_off |-> <<>>]
        ELSE LET m == timing_at(col_val, i)
             IN  [shift |-> strip(sub_timing(col_val)),
                  sign_on |-> strip(SubSeq(col_val, i, m.on_end)),
                  sign_off |-> strip(SubSeq(col_val, m.off_start, m.end))]

\* the row test with 3 cells as the fewest
row_accepted_three_cells(r) ==
    /\ Len(r) >= 3
    /\ employee_name_of(r[1]) # <<>>
    /\ upper(employee_name_of(r[1])) \notin HEADER_TOKENS

\* lines 76-77, 85-86 / 237-238, 246-247: the rows that are not skipped
row_accepted(r) ==
    /\ Len(r) >= 4
    /\ employee_name_of(r[1]) # <<>>
    /\ upper(employee_name_of(r[1])) \notin HEADER_TOKENS

\* lines 89-93 / 281-285: the codes of the columns first_col .. len(row)-1
attendance_codes_from(r, first_col) ==
    [k \in 1..(Len(r) - first_col) |-> code_of(r[first_col + k])]

\* the last date column taken as the first one
last_date_col_first(date_headers) ==
    IF DOMAIN date_headers # {}
    THEN CHOOSE c \in DOMAIN date_headers :
            \A e \in DOMAIN date_headers : c <= e
    ELSE 3

\* line 280: max(date_headers.keys()) if date_headers else 3
last_date_col_of(date_headers) ==
    IF DOMAIN date_headers # {} THEN Max(DOMAIN date_headers) ELSE 3

\* lines 79-100 / 240-294: the record of one accepted row
record_of(kind, r, date_headers) ==
    IF kind = "roster"
    THEN [Employee |-> employee_name_of(r[1]),
          Personnel_Number |-> text_of(r[2]),
          Scheduling_Row |-> text_of(r[3]),
          Attendance_Codes |-> attendance_codes_from(r, 3)]
    ELSE [Employee |-> employee_name_of(r[1]),
          Personnel_Number |-> text_of(r[2]),
          Scheduling_Row |-> text_of(r[3]),
          Attendance_Codes |->
              attendance_codes_from(r, last_date_col_of(date_headers) + 1),
          Shift_Data |->
              [c \in {c \in 3..(Len(r) - 1) :
                         c \in DOMAIN date_headers \/ c = 3} |->
                  shift_of(r[c + 1])],
          Date_Headers |-> date_headers]

\* the records of the rows of rows, in order
RECURSIVE records_of_rows(_, _, _)
records_of_rows(kind, rows, date_headers) ==
    IF rows = <<>> THEN <<>>
    ELSE (IF row_accepted(Head(rows))
          THEN <<record_of(kind, Head(rows), date_headers)>>
          ELSE <<>>)
            \o records_of_rows(kind, Tail(rows), date_headers)

\* the table loop without the test of lines 57-58 / 204-205
records_of_table_any_length(kind, table) ==
    LET data_start == find_data_start(table)
    IN  IF data_start = -1 THEN <<>>
        ELSE records_of_rows(kind,
                 SubSeq(table, data_start + 1, Len(table)),
                 date_headers_of(header_rows_of(table, data_start)))

\* lines 56-101 / 203-295: the records of one table
records_of_table(kind, table) ==
    LET data_start == find_data_start(table)
    IN  IF Len(table) < 3 \/ data_start = -1 THEN <<>>
        ELSE records_of_rows(kind,
                 SubSeq(table, data_start + 1, Len(table)),
                 date_headers_of(header_rows_of(table, data_start)))

\* lines 49-103 / 196-297
RECURSIVE parse_attendance_data(_, _)
parse_attendance_data(kind, tables) ==
    IF tables = <<>> THEN <<>>
    ELSE records_of_table(kind, Head(tables))
            \o parse_attendance_data(kind, Tail(tables))

---------------------------------------------------------------------------
(* Specification of parse_attendance_data: extract_tables has filled       *)
(* self.raw_tables, and parse_attendance_data reads the records from them  *)

\* a header row with two date headers and a date without weekday
HEADER_DATES ==
    <<(<<"E", "m", "p", "l", "o", "y", "e", "e">>),
      (<<"N", "o">>),
      PyNone,
      (<<"T", "u", "e", ".", "\n", "1", "3", ".", "0", "1">>),
      (<<"W", "e", "d", " ", "1", "4", ".", "0", "1">>),
      (<<"1", "5", ".", "0", "1">>)>>

\* a header row of day numbers
HEADER_NUMBERS ==
    <<PyNone,
      PyNone,
      PyNone,
      PyNone,
      (<<"1", "3">>)>>

\* an employee row: a shift cell with its timing, one more, a code with a
\* line break in it and an empty last cell
ROW_ASHA ==
    <<(<<" ", "A", "s", "h", "a", "\n", "R", "a", "o", " ">>),
      (<<"1", "0", "0", "1", " ">>),
      (<<"A", "1">>),
      (<<"M", "0", "5", ":", "0", "0", "-", "1", "3", ":", "0", "0">>),
      (<<"E", " ", "1", "3", ":", "0", "0", " ", "-", " ", "2", "1", ":",
        "0", "0">>),
      (<<" ", "W", "\n", "O", " ">>),
      PyNone>>

\* an employee row of four cells
ROW_RAVI ==
    <<(<<"R", "a", "v", "i">>),
      (<<"1", "0", "0", "2">>),
      PyNone,
      (<<"N">>)>>

\* an employee row of three cells
ROW_THREE_CELLS ==
    <<(<<"A", "n", "u">>),
      (<<"1", "0", "0", "3">>),
      (<<"A", "1">>)>>

\* a row without a name
ROW_BLANK_NAME ==
    <<(<<" ", "\n">>),
      (<<"1", "0", "0", "4">>),
      (<<"A", "1">>),
      (<<"M">>),
      (<<"E">>)>>

\* a row whose name is the text none
ROW_NONE_NAME ==
    <<(<<" ", "n", "o", "n", "e">>),
      (<<"1", "0", "0", "5">>),
      (<<"A", "1">>),
      (<<"M">>),
      (<<"E">>)>>

TableRows ==
    {HEADER_DATES, HEADER_NUMBERS, ROW_ASHA, ROW_RAVI, ROW_THREE_CELLS,
     ROW_BLANK_NAME, ROW_NONE_NAME}

\* a table of one page: two header rows, two employees
RosterTable == <<HEADER_DATES, HEADER_NUMBERS, ROW_RAVI, ROW_ASHA>>

InitParse ==
    /\ variant \in {"roster", "trip"}
    /\ \E n \in 0..MaxRows :
         \E table \in [1..n -> TableRows] :
            raw_tables \in {<<table>>, <<table, RosterTable>>,
                            <<RosterTable, table>>}
    /\ all_data = NotCalled
    /\ data = <<>>
    /\ df = NotCalled
    /\ df_again = NotCalled
    /\ code_str = <<>>
    /\ parsed = NotCalled
    /\ row = <<>>
    /\ stats = NotCalled
    /\ details_file = [exists |-> FALSE]
    /\ analyzer = NotCalled
    /\ all_stats = NotCalled
    /\ daily = NotCalled
    /\ insights = NotCalled
    /\ trends = NotCalled
    /\ shift_dist = NotCalled
    /\ report_df = [columns |-> <<>>, rows |-> <<>>]
    /\ set_order = <<>>
    /\ report = NotCalled
    /\ summary = NotCalled
    /\ daily_trends = NotCalled
    /\ shift_analysis = NotCalled
    /\ employee_details = NotCalled
    /\ pdf = <<>>
    /\ extract_calls = 0
    /\ heap = <<>>
    /\ self_df = 0

ParseAttendanceData ==
    /\ all_data = NotCalled
    /\ all_data' = [records |-> parse_attendance_data(variant, raw_tables)]
    /\ UNCHANGED <<code_str, parsed, row, stats, variant, data, df, df_again,
                   raw_tables, details_file, analyzer, all_stats, daily,
                   insights, trends, shift_dist, report_df, set_order, report,
                   summary, daily_trends, shift_analysis, employee_details,
                   pdf, extract_calls, heap, self_df>>

NextParse == ParseAttendanceData

SpecParse == InitParse /\ [][NextParse]_vars


---------------------------------------------------------------------------
(* Properties of parse_attendance_data *)

Parsed == all_data # NotCalled

\* the first cell of a row, upper-cased and stripped
FirstCellText(r) == upper(strip(str(r[1])))

IsHeaderToken(t) ==
    \/ t = <<>>
    \/ t = <<"E", "M", "P", "L", "O", "Y", "E", "E">>
    \/ t = <<"N", "O", "N", "E">>

\* the row has a first cell that is no header token
StartsData(r) == Len(r) >= 1 /\ ~IsHeaderToken(FirstCellText(r))

\* the data-start row of a table (numbered from 1), 0 if it has none
DataStartRow(table) ==
    IF \E i \in 1..Len(table) : StartsData(table[i])
    THEN CHOOSE i \in 1..Len(table) :
            StartsData(table[i]) /\ \A j \in 1..(i - 1) : ~StartsData(table[j])
    ELSE 0

\* a table whose rows are read: three rows or more, one of them the
\* data-start row
IsRead(table) == Len(table) >= 3 /\ DataStartRow(table) # 0

\* the first of the (at most two) rows above the data-start row, <<>> if
\* there is none
FirstHeaderRow(table) ==
    LET d == DataStartRow(table)
    IN  IF d = 1 THEN <<>> ELSE IF d = 2 THEN table[1] ELSE table[d - 2]

\* a row from which a record is read: four cells or more, and a first cell
\* that is no header token
YieldsRecord(r) == Len(r) >= 4 /\ ~IsHeaderToken(FirstCellText(r))

\* the rows at or after the data-start row of the tables that are read, in
\* order, each with the first header row of its table
RECURSIVE RowsFromDataStart(_)
RowsFromDataStart(tables) ==
    IF tables = <<>> THEN <<>>
    ELSE LET table == Head(tables)
             d == DataStartRow(table)
         IN  (IF IsRead(table)
              THEN [k \in 1..(Len(table) - d + 1) |->
                       [cells |-> table[d + k - 1],
                        header |-> FirstHeaderRow(table)]]
              ELSE <<>>)
                \o RowsFromDataStart(Tail(tables))

RowsRead ==
    SelectSeq(RowsFromDataStart(raw_tables),
              LAMBDA item : YieldsRecord(item.cells))

\* C13: a row at or after the data-start row yields exactly one record if
\* and only if it has at least 4 cells and its first cell, upper-cased and
\* stripped, is none of EMPLOYEE, "" and NONE; every other row is skipped
\* and leaves the records of the other rows as they are.
C13_OneRecordPerAcceptedRow ==
    Parsed =>
        LET rows == RowsRead
        IN  /\ Len(all_data.records) = Len(rows)
            /\ \A k \in 1..Len(rows) :
                 all_data.records[k] =
                    record_of(variant, rows[k].cells,
                              date_headers_of(
                                  IF rows[k].header = <<>> THEN <<>>
                                  ELSE <<rows[k].header>>))

C13_Witness ==
    /\ Parsed
    /\ raw_tables \in {<< <<ROW_RAVI, ROW_THREE_CELLS, ROW_ASHA>> >>,
                      << <<ROW_RAVI, ROW_NONE_NAME, ROW_ASHA>> >>,
                      << <<ROW_RAVI, ROW_BLANK_NAME, ROW_ASHA>> >>}
    /\ Len(all_data.records) = 2
    /\ all_data.records[1].Employee = <<"R", "a", "v", "i">>
    /\ all_data.records[2].Employee =
         <<"A", "s", "h", "a", " ", "R", "a", "o">>

\* C14: a table of fewer than 3 rows contributes no record, and so does a
\* table without a data-start row; the records of the other tables are
\* what they are without it.
C14_SkippedTablesContributeNothing ==
    Parsed =>
        /\ \A i \in 1..Len(raw_tables) :
             ~IsRead(raw_tables[i]) =>
                parse_attendance_data(variant, <<raw_tables[i]>>) = <<>>
        /\ all_data.records =
             parse_attendance_data(variant, SelectSeq(raw_tables, IsRead))

C14_Witness ==
    /\ Parsed
    /\ Len(raw_tables) = 2
    /\ raw_tables[1] \in {<<ROW_RAVI, ROW_ASHA>>,
                          <<HEADER_DATES, HEADER_NUMBERS, HEADER_NUMBERS>>}
    /\ raw_tables[2] = RosterTable
    /\ Len(all_data.records) = 2
    /\ all_data.records[1].Employee = <<"R", "a", "v", "i">>

\* the text of a cell, none for an absent cell
CellText(cell) == IF cell = PyNone THEN <<>> ELSE cell

\* the text of a cell without line breaks, stripped
CleanText(cell) ==
    strip(SelectSeq(CellText(cell), LAMBDA c : c \notin {"\n", "\r"}))

\* C15: in the roster variant a row of n cells yields exactly n - 3 raw
\* codes, the cells 3 .. n-1 in order, each stripped and without line
\* breaks, an absent cell as the empty string; the cells 0, 1 and 2 are the
\* name, the personnel number and the scheduling row.
C15_RosterCodesFromColumnThree ==
    (Parsed /\ variant = "roster") =>
        LET rows == RowsRead
        IN  \A k \in 1..Len(rows) :
            LET cells == rows[k].cells
                record == all_data.records[k]
            IN  /\ Len(record.Attendance_Codes) = Len(cells) - 3
                /\ \A c \in 3..(Len(cells) - 1) :
                     record.Attendance_Codes[c - 2] = CleanText(cells[c + 1])
                /\ record.Employee = join_split(CellText(cells[1]))
                /\ record.Personnel_Number = strip(CellText(cells[2]))
                /\ record.Scheduling_Row = strip(CellText(cells[3]))

C15_Witness ==
    /\ Parsed
    /\ variant = "roster"
    /\ \E k \in 1..Len(all_data.records) :
         /\ RowsRead[k].cells = ROW_ASHA
         /\ all_data.records[k].Attendance_Codes =
              <<ROW_ASHA[4], ROW_ASHA[5], <<"W", "O">>, <<>>>>
         /\ all_data.records[k].Personnel_Number = <<"1", "0", "0", "1">>

\* the header texts that are date headers
DateHeaderTexts == {HEADER_DATES[4], HEADER_DATES[5]}

\* the last column (from 3 on) of a header row that holds a date header,
\* 3 if none does
LastHeaderColumn(header) ==
    LET cols == {c \in 3..(Len(header) - 1) : header[c + 1] \in DateHeaderTexts}
    IN  IF cols = {} THEN 3 ELSE Max(cols)

\* C16: in the trip-chart variant the raw codes of a row are exactly the
\* cells after the last recognized date header column of its table, in
\* order (from column 4 on when no date header is recognized); no cell of
\* the shift block is among them and no cell after it is lost.
C16_TripCodesAfterLastHeaderColumn ==
    (Parsed /\ variant = "trip") =>
        LET rows == RowsRead
        IN  \A k \in 1..Len(rows) :
            LET cells == rows[k].cells
                record == all_data.records[k]
                last == LastHeaderColumn(rows[k].header)
            IN  /\ Len(record.Attendance_Codes) = Max({0, Len(cells) - last - 1})
                /\ \A c \in (last + 1)..(Len(cells) - 1) :
                     record.Attendance_Codes[c - last] = CleanText(cells[c + 1])
                /\ \A c \in DOMAIN record.Shift_Data : c <= last

C16_Witness ==
    /\ Parsed
    /\ variant = "trip"
    /\ \E k \in 1..Len(all_data.records) :
         /\ RowsRead[k].cells = ROW_ASHA
         /\ RowsRead[k].header = HEADER_DATES
         /\ all_data.records[k].Attendance_Codes = <<(<<"W", "O">>), <<>>>>
         /\ DOMAIN all_data.records[k].Shift_Data = {3, 4}
    /\ \E k \in 1..Len(all_data.records) :
         /\ RowsRead[k].cells = ROW_ASHA
         /\ RowsRead[k].header # HEADER_DATES
         /\ Len(all_data.records[k].Attendance_Codes) = 3


---------------------------------------------------------------------------
(* The analyzer on a whole table: AttendanceAnalyzer(df), the employee     *)
(* details lookup and the reports get_all_employee_stats,                  *)
(* get_daily_attendance, get_summary_insights and get_day_wise_trends      *)

\* most employees in the analyzed batch
MaxEmployees == 3

\* the sentinel 'N/A'
NA == <<"N", "/", "A">>

\* analyzer.py lines 97-102: the names of the shift codes
SHIFT_NAMES ==
    [M |-> "Morning Shift (07:00-15:00)", E |-> "Evening Shift (15:00-22:00)",
     N |-> "Night Shift (22:00-07:00)", G |-> "General Shift (09:00-17:00)"]

\* load_employee_details returned None
NoDetails == [loaded |-> FALSE]

\* line 44: astype(str).str.split('.').str[0].str.strip()
clean_id(emp_id) ==
    LET t == str(emp_id)
    IN  strip(IF find(t, ".") = 0 THEN t ELSE SubSeq(t, 1, find(t, ".") - 1))

\* lines 47-49: dict(zip(df['clean_id'], df[column].fillna(''))); a later
\* row with the same id replaces an earlier one
dict_zip(sheet, column) ==
    [k \in {clean_id(sheet[i].Emp_Id) : i \in 1..Len(sheet)} |->
        LET last == Max({i \in 1..Len(sheet) : clean_id(sheet[i].Emp_Id) = k})
        IN  IF isna(sheet[last][column]) THEN <<>> ELSE sheet[last][column]]

\* lines 28-90 with department=None: the lookup tables of the station
\* workbook, None when it does not exist or reading it raises
load_employee_details(file) ==
    IF ~file.exists THEN NoDetails
    ELSE IF ~file.readable THEN NoDetails
    ELSE [loaded |-> TRUE,
          designation |-> dict_zip(file.sheet, "Designation"),
          station |-> dict_zip(file.sheet, "Station"),
          am |-> dict_zip(file.sheet, "AM")]

\* series.map(table) without the fillna: a missing key is left as NaN
map_lookup_unfilled(table, key, default) ==
    IF key \in DOMAIN table THEN table[key] ELSE NaN

\* lines 344-346: series.map(table).fillna(default) for one key
map_lookup(table, key, default) ==
    IF key \in DOMAIN table THEN table[key] ELSE default

\* lines 123-137: self.df is a copy of df with its Day_ cells cleaned
AttendanceAnalyzer(frame) ==
    [day_columns |-> frame.day_columns,
     rows |->
        [i \in 1..Len(frame.rows) |->
            clean_row([Employee |-> frame.rows[i].Employee,
                       Personnel_Number |-> frame.rows[i].Personnel_Number,
                       days |-> frame.rows[i].Days])]]

\* lines 275-301: the shift a day cell is tallied under, "None" if none
tallied_shift(code) ==
    IF isna(code) \/ (isinstance_str(code) /\ strip(code) = <<>>) THEN "None"
    ELSE LET p == parse_attendance_code(code)
         IN  IF p.is_weekly_off \/ p.is_leave \/ p.is_absent THEN "None"
             ELSE p.shift

\* lines 328-330: the name of x.most_common(1)[0][0], 'N/A' for an empty
\* counter; of the shifts with the highest count a Counter gives the one
\* that was counted first
most_common_shift(r, st) ==
    LET dist == st.Shift_Distribution
        top == Max({dist[c] : c \in SHIFT_CODES})
        first(c) ==
            CHOOSE i \in 1..Len(r.days) :
                /\ tallied_shift(r.days[i]) = c
                /\ \A j \in 1..(i - 1) : tallied_shift(r.days[j]) # c
    IN  IF top = 0 THEN "N/A"
        ELSE SHIFT_NAMES[CHOOSE c \in SHIFT_CODES :
                            /\ dist[c] = top
                            /\ \A d \in SHIFT_CODES :
                                 dist[d] = top => first(c) <= first(d)]

\* lines 321-338: one row of stats_df; Shift_Days stands for the columns
\* M_Shift_Days, E_Shift_Days, N_Shift_Days and G_Shift_Days
stats_df_row(r, st) ==
    [Employee |-> st.Employee,
     Personnel_Number |-> st.Personnel_Number,
     Total_Days |-> st.Total_Days,
     Present_Days |-> st.Present_Days,
     Absent_Days |-> st.Absent_Days,
     Leave_Days |-> st.Leave_Days,
     Weekly_Off |-> st.Weekly_Off,
     Attendance_Rate |-> st.Attendance_Rate,
     Stations |-> st.Stations,
     Most_Common_Shift |-> most_common_shift(r, st),
     Shift_Days |-> st.Shift_Distribution]

\* line 321: stats = self.calculate_employee_stats(row)
stats_row(r) == stats_df_row(r, calculate_employee_stats(r))

\* lines 343-346: the three detail columns of one row
with_details(srow, emp_details) ==
    srow @@
    [Designation |->
        map_lookup(emp_details.designation, str(srow.Personnel_Number), NA),
     Station |->
        map_lookup(emp_details.station, str(srow.Personnel_Number), <<>>),
     AM |-> map_lookup(emp_details.am, str(srow.Personnel_Number), <<>>)]

\* lines 326-346: stats_df from the rows; pd.DataFrame([]) has no column,
\* and stats_df['Shift_Distribution'] of line 328 raises KeyError on it
stats_df_of(stats_list, emp_details) ==
    IF stats_list = <<>> THEN Raised("KeyError")
    ELSE [rows |->
            IF emp_details # NoDetails
            THEN [i \in 1..Len(stats_list) |->
                     with_details(stats_list[i], emp_details)]
            ELSE stats_list]

\* lines 317-359
get_all_employee_stats(an, file) ==
    stats_df_of([i \in 1..Len(an.rows) |-> stats_row(an.rows[i])],
                load_employee_details(file))

\* line 367: self.df[day_col]
day_data(an, i) == [e \in 1..Len(an.rows) |-> an.rows[e].days[i]]

\* line 368
has_data(codes) ==
    \E e \in 1..Len(codes) :
        truthy(codes[e]) /\ ~isna(codes[e]) /\ strip(str(codes[e])) # <<>>

\* lines 229-232
is_working_day(code) == parse_attendance_code(code).shift # "None"

\* lines 234-237
is_absent(code) == parse_attendance_code(code).is_absent

\* lines 239-242
is_on_leave(code) == parse_attendance_code(code).is_leave

\* lines 244-247
is_weekly_off(code) == parse_attendance_code(code).is_weekly_off

\* lines 373-376: the test of each of the four counts of a day
code_is(kind, code) ==
    CASE kind = "present" -> is_working_day(code)
      [] kind = "absent" -> is_absent(code)
      [] kind = "on_leave" -> is_on_leave(code)
      [] kind = "weekly_off" -> is_weekly_off(code)
      [] kind = "recorded" ->
            truthy(code) /\ ~isna(code) /\ strip(str(code)) # <<>>

\* sum(1 for code in day_data if self.is_...(code))
count_codes(codes, kind) ==
    Cardinality({e \in 1..Len(codes) : code_is(kind, codes[e])})

\* lines 373-376: present, absent, on_leave and weekly_off of a day
day_counts(codes) ==
    [Present |-> count_codes(codes, "present"),
     Absent |-> count_codes(codes, "absent"),
     On_Leave |-> count_codes(codes, "on_leave"),
     Weekly_Off |-> count_codes(codes, "weekly_off")]

\* lines 378-395: the row of day i from its counts; Attendance_Rate is
\* round(attendance_rate, 2) in hundredths
daily_stats_row(i, total_employees, counts) ==
    LET expected_working ==
            total_employees - counts.Weekly_Off - counts.On_Leave
    IN  [Day |-> i,
         Total_Employees |-> total_employees,
         Present |-> counts.Present,
         Absent |-> counts.Absent,
         On_Leave |-> counts.On_Leave,
         Weekly_Off |-> counts.Weekly_Off,
         Expected_Working |-> expected_working,
         Attendance_Rate |->
            IF expected_working > 0
            THEN Round2(Rate(counts.Present * 100, expected_working))
            ELSE 0]

\* the row of a day with the recorded entries of the day as the total
daily_row_recorded_entries(an, i) ==
    daily_stats_row(i, count_codes(day_data(an, i), "recorded"),
                    day_counts(day_data(an, i)))

\* lines 373-395: the row of day i (Day_Column is 'Day_' followed by i),
\* with total_employees = len(self.df)
daily_row(an, i) ==
    daily_stats_row(i, Len(an.rows), day_counts(day_data(an, i)))

\* get_daily_attendance without the test of lines 370-371
get_daily_attendance_every_day(an) ==
    [rows |-> [i \in 1..an.day_columns |-> daily_row(an, i)]]

\* lines 361-397
get_daily_attendance(an) ==
    LET days == SelectSeq([i \in 1..an.day_columns |-> i],
                          LAMBDA i : has_data(day_data(an, i)))
    IN  [rows |-> [k \in 1..Len(days) |-> daily_row(an, days[k])]]

RECURSIVE sum(_)
sum(values) == IF values = <<>> THEN 0 ELSE Head(values) + sum(Tail(values))

\* series.idxmax(): the first position of the highest value
idxmax(values) ==
    CHOOSE k \in 1..Len(values) :
        /\ \A j \in 1..Len(values) : values[j] <= values[k]
        /\ \A j \in 1..(k - 1) : values[j] < values[k]

\* series.idxmin(): the first position of the lowest value
idxmin(values) ==
    CHOOSE k \in 1..Len(values) :
        /\ \A j \in 1..Len(values) : values[j] >= values[k]
        /\ \A j \in 1..(k - 1) : values[j] > values[k]

\* lines 469-482; the daily table of a batch without a day with data has
\* no column, and daily_df['Attendance_Rate'] raises KeyError on it.  The
\* average is the exact mean of the daily rates (in hundredths), before
\* its rounding to two decimals.
trends_of(daily_df) ==
    LET rates == [k \in 1..Len(daily_df) |-> daily_df[k].Attendance_Rate]
        absences == [k \in 1..Len(daily_df) |-> daily_df[k].Absent]
    IN  IF daily_df = <<>> THEN Raised("KeyError")
        ELSE [Average_Daily_Attendance_Rate |-> Rate(sum(rates), Len(rates)),
              Best_Attendance_Day |-> daily_df[idxmax(rates)].Day,
              Worst_Attendance_Day |-> daily_df[idxmin(rates)].Day,
              Most_Absences_Day |-> daily_df[idxmax(absences)].Day,
              Highest_Attendance_Rate |-> rates[idxmax(rates)],
              Lowest_Attendance_Rate |-> rates[idxmin(rates)]]

\* line 471: daily_df = self.get_daily_attendance()
get_day_wise_trends(an) == trends_of(get_daily_attendance(an).rows)

\* a < b for two rates
rate_less(a, b) == a.num * b.den < b.num * a.den

RECURSIVE rate_sum(_)
rate_sum(rates) ==
    IF rates = <<>> THEN Rate(0, 1)
    ELSE LET rest == rate_sum(Tail(rates))
         IN  Rate(Head(rates).num * rest.den + rest.num * Head(rates).den,
                  Head(rates).den * rest.den)

\* the k-th lowest of the rates
kth_rate(rates, k) ==
    rates[CHOOSE i \in 1..Len(rates) :
            /\ Cardinality({j \in 1..Len(rates) :
                              rate_less(rates[j], rates[i])}) < k
            /\ Cardinality({j \in 1..Len(rates) :
                              ~rate_less(rates[i], rates[j])}) >= k]

\* series.median()
rate_median(rates) ==
    LET n == Len(rates)
    IN  IF n % 2 = 1 THEN kth_rate(rates, (n + 1) \div 2)
        ELSE LET lo == kth_rate(rates, n \div 2)
                 hi == kth_rate(rates, n \div 2 + 1)
             IN  Rate(lo.num * hi.den + hi.num * lo.den, 2 * lo.den * hi.den)

\* lines 399-420 (Month is self.month_name); the average and the median
\* are the exact values before their rounding to two decimals, the lowest
\* and the highest rate are rounded, in hundredths
insights_of(an, stats_df) ==
        IF "exception" \in DOMAIN stats_df THEN stats_df
        ELSE LET rs == stats_df.rows
                 rates == [i \in 1..Len(rs) |-> rs[i].Attendance_Rate]
             IN  [Total_Employees |-> Len(an.rows),
                  Average_Attendance_Rate |->
                      LET total == rate_sum(rates)
                      IN  Rate(total.num, total.den * Len(rates)),
                  Median_Attendance_Rate |-> rate_median(rates),
                  Min_Attendance_Rate |-> Round2(kth_rate(rates, 1)),
                  Max_Attendance_Rate |-> Round2(kth_rate(rates, Len(rates))),
                  Total_Present_Days |->
                      sum([i \in 1..Len(rs) |-> rs[i].Present_Days]),
                  Total_Absent_Days |->
                      sum([i \in 1..Len(rs) |-> rs[i].Absent_Days]),
                  Total_Leave_Days |->
                      sum([i \in 1..Len(rs) |-> rs[i].Leave_Days]),
                  Total_Weekly_Offs |->
                      sum([i \in 1..Len(rs) |-> rs[i].Weekly_Off]),
                  Employees_Perfect_Attendance |->
                      Cardinality({i \in 1..Len(rs) :
                                     rates[i].num = 100 * rates[i].den}),
                  Employees_Below_80_Percent |->
                      Cardinality({i \in 1..Len(rs) :
                                     rates[i].num < 80 * rates[i].den}),
                  Employees_Below_90_Percent |->
                      Cardinality({i \in 1..Len(rs) :
                                     rates[i].num < 90 * rates[i].den}),
                  Employees_Above_95_Percent |->
                      Cardinality({i \in 1..Len(rs) :
                                     rates[i].num >= 95 * rates[i].den})]

\* line 401: stats_df = self.get_all_employee_stats()
get_summary_insights(an, file) ==
    insights_of(an, get_all_employee_stats(an, file))

---------------------------------------------------------------------------
(* Specification of the analysis of a batch: create_dataframe builds the   *)
(* table from the records, an analyzer is built on it, and its reports     *)
(* are called in any order                                                 *)

\* the day codes of one employee: three days, the second one empty for
\* all but one of them
DayRows ==
    {<<(<<"M">>), <<>>, (<<"W", "O">>)>>,
     <<(<<>>), <<>>, (<<"M">>)>>,
     <<(<<"S", "L">>), <<>>, (<<"A", "B">>)>>,
     <<E_NASH, (<<"M">>), <<>>>>,
     <<(<<>>), <<>>, <<>>>>,
     <<(<<"A", "B">>), <<>>, (<<"x">>)>>}

\* the personnel numbers of the employees as the PDF prints them
PersonnelNumbers ==
    <<<<"1", "0", "0", "1">>,
      <<"1", "0", "0", "2", ".", "0">>,
      <<"9", "9", "9", "9">>,
      <<"1", "0", "0", "2">>>>

\* the record of the i-th employee
EmployeeRecord(i, codes) ==
    [Employee |-> EmployeeNames[i],
     Personnel_Number |->
        PersonnelNumbers[((i - 1) % Len(PersonnelNumbers)) + 1],
     Scheduling_Row |-> "SC",
     Attendance_Codes |-> codes]

\* "Employee details/station_employee_details.xlsx" does not exist
NoFile == [exists |-> FALSE]

\* the workbook exists, and reading it raises
UnreadableFile == [exists |-> TRUE, readable |-> FALSE]

\* the workbook with two employees, one with Emp Id read as a float and
\* without designation and manager
StationFile ==
    [exists |-> TRUE, readable |-> TRUE,
     sheet |->
        <<[Emp_Id |-> <<"1", "0", "0", "1">>,
           Designation |-> <<"S", "C">>,
           Station |-> <<"N", "A", "S", "H">>,
           AM |-> <<"A", "M", "-", "1">>],
          [Emp_Id |-> <<"1", "0", "0", "2", ".", "0">>,
           Designation |-> NaN,
           Station |-> <<"R", "I", "T", "H">>,
           AM |-> NaN]>>]

\* the analyzer reads no column that differs between the two variants: the
\* trip-chart variant is kept for the batch without records only
InitAnalyzer ==
    /\ variant \in {"roster", "trip"}
    /\ details_file \in {NoFile, UnreadableFile, StationFile}
    /\ \E n \in 0..MaxEmployees :
         \E codes \in [1..n -> DayRows] :
            data = [i \in 1..n |-> EmployeeRecord(i, codes[i])]
    /\ variant = "trip" => data = <<>>
    /\ df = NotCalled
    /\ analyzer = NotCalled
    /\ all_stats = NotCalled
    /\ daily = NotCalled
    /\ insights = NotCalled
    /\ trends = NotCalled
    /\ df_again = NotCalled
    /\ raw_tables = <<>>
    /\ all_data = NotCalled
    /\ code_str = <<>>
    /\ parsed = NotCalled
    /\ row = <<>>
    /\ stats = NotCalled
    /\ shift_dist = NotCalled
    /\ report_df = [columns |-> <<>>, rows |-> <<>>]
    /\ set_order = <<>>
    /\ report = NotCalled
    /\ summary = NotCalled
    /\ daily_trends = NotCalled
    /\ shift_analysis = NotCalled
    /\ employee_details = NotCalled
    /\ pdf = <<>>
    /\ extract_calls = 0
    /\ heap = <<>>
    /\ self_df = 0

NewAnalyzer ==
    /\ df # NotCalled
    /\ analyzer = NotCalled
    /\ analyzer' = AttendanceAnalyzer(df)
    /\ UNCHANGED <<code_str, parsed, row, stats, variant, data, df, df_again,
                   raw_tables, all_data, details_file, all_stats, daily,
                   insights, trends, shift_dist, report_df, set_order, report,
                   summary, daily_trends, shift_analysis, employee_details,
                   pdf, extract_calls, heap, self_df>>

GetAllEmployeeStats ==
    /\ analyzer # NotCalled
    /\ all_stats = NotCalled
    /\ all_stats' = get_all_employee_stats(analyzer, details_file)
    /\ UNCHANGED <<code_str, parsed, row, stats, variant, data, df, df_again,
                   raw_tables, all_data, details_file, analyzer, daily,
                   insights, trends, shift_dist, report_df, set_order, report,
                   summary, daily_trends, shift_analysis, employee_details,
                   pdf, extract_calls, heap, self_df>>

GetDailyAttendance ==
    /\ analyzer # NotCalled
    /\ daily = NotCalled
    /\ daily' = get_daily_attendance(analyzer)
    /\ UNCHANGED <<code_str, parsed, row, stats, variant, data, df, df_again,
                   raw_tables, all_data, details_file, analyzer, all_stats,
                   insights, trends, shift_dist, report_df, set_order, report,
                   summary, daily_trends, shift_analysis, employee_details,
                   pdf, extract_calls, heap, self_df>>

GetSummaryInsights ==
    /\ analyzer # NotCalled
    /\ insights = NotCalled
    /\ insights' = get_summary_insights(analyzer, details_file)
    /\ UNCHANGED <<code_str, parsed, row, stats, variant, data, df, df_again,
                   raw_tables, all_data, details_file, analyzer, all_stats,
                   daily, trends, shift_dist, report_df, set_order, report,
                   summary, daily_trends, shift_analysis, employee_details,
                   pdf, extract_calls, heap, self_df>>

GetDayWiseTrends ==
    /\ analyzer # NotCalled
    /\ trends = NotCalled
    /\ trends' = get_day_wise_trends(analyzer)
    /\ UNCHANGED <<code_str, parsed, row, stats, variant, data, df, df_again,
                   raw_tables, all_data, details_file, analyzer, all_stats,
                   daily, insights, shift_dist, report_df, set_order, report,
                   summary, daily_trends, shift_analysis, employee_details,
                   pdf, extract_calls, heap, self_df>>

NextAnalyzer ==
    \/ CreateDataframe
    \/ NewAnalyzer
    \/ GetAllEmployeeStats
    \/ GetDailyAttendance
    \/ GetSummaryInsights
    \/ GetDayWiseTrends

SpecAnalyzer == InitAnalyzer /\ [][NextAnalyzer]_vars


---------------------------------------------------------------------------
(* Properties of the reports *)

IsEmptyValue(cell) == cell \in {<<>>, PyNone, NaN}

\* at least one employee of the batch has a non-empty value in Day_i
DayHasValue(i) ==
    \E e \in 1..Len(df.rows) : ~IsEmptyValue(df.rows[e].Days[i])

\* the number of employees whose Day_i value is of the kind
EntriesOfKind(i, kind) ==
    Cardinality({e \in 1..Len(df.rows) : FirstMatch(df.rows[e].Days[i]) = kind})

\* the number of employees with a non-empty value in Day_i
RecordedEntries(i) ==
    Cardinality({e \in 1..Len(df.rows) : ~IsEmptyValue(df.rows[e].Days[i])})

\* the rate present / denominator * 100 in hundredths, 0 for a denominator
\* that is not positive
RateOver(present, denominator) ==
    IF denominator > 0 THEN Round2(Rate(present * 100, denominator)) ELSE 0

DailyReturned == daily # NotCalled

\* C17: get_daily_attendance outputs a row for day slot i if and only if at
\* least one employee of the batch has a non-empty value in Day_i; the rows
\* keep the day index of their column and stand in the order of the days.
C17_DailyRowIffDayHasValue ==
    DailyReturned =>
        /\ \A i \in 1..df.day_columns :
             (\E k \in 1..Len(daily.rows) : daily.rows[k].Day = i)
                <=> DayHasValue(i)
        /\ \A k \in 1..Len(daily.rows) : daily.rows[k].Day \in 1..df.day_columns
        /\ \A k \in 1..(Len(daily.rows) - 1) :
             daily.rows[k].Day < daily.rows[k + 1].Day

C17_Witness ==
    /\ DailyReturned
    /\ Len(data) >= 2
    /\ DayHasValue(1) /\ ~DayHasValue(2) /\ DayHasValue(3)
    /\ [k \in 1..Len(daily.rows) |-> daily.rows[k].Day] = <<1, 3>>

\* C18 as stated: the rate of a day of the daily trend is
\* present / denominator * 100 when the denominator is positive and 0
\* otherwise, the denominator being the number of non-empty entries of the
\* day minus its weekly-offs minus its leaves.
C18_DenominatorFromRecordedEntries ==
    DailyReturned =>
        \A k \in 1..Len(daily.rows) :
            LET i == daily.rows[k].Day
            IN  daily.rows[k].Attendance_Rate =
                    RateOver(EntriesOfKind(i, "Shift"),
                             RecordedEntries(i) - EntriesOfKind(i, "WeeklyOff")
                                - EntriesOfKind(i, "Leave"))

\* C18, amended: the rate of a day of the daily trend is
\* present / denominator * 100, rounded to two decimals, when the
\* denominator is positive and 0 otherwise, the denominator being the
\* number of employees of the batch (those with an empty entry that day
\* included) minus the weekly-offs minus the leaves of the day.
C18_DenominatorFromAllEmployees ==
    DailyReturned =>
        \A k \in 1..Len(daily.rows) :
            LET i == daily.rows[k].Day
                denominator ==
                    Len(df.rows) - EntriesOfKind(i, "WeeklyOff")
                        - EntriesOfKind(i, "Leave")
            IN  /\ daily.rows[k].Total_Employees = Len(df.rows)
                /\ daily.rows[k].Present = EntriesOfKind(i, "Shift")
                /\ daily.rows[k].Expected_Working = denominator
                /\ daily.rows[k].Attendance_Rate =
                     RateOver(EntriesOfKind(i, "Shift"), denominator)

C18_Witness ==
    /\ DailyReturned
    /\ \E k \in 1..Len(daily.rows) :
         /\ daily.rows[k].Day = 1
         /\ RecordedEntries(1) = 1
         /\ daily.rows[k].Total_Employees = 3
         /\ daily.rows[k].Present = 1
         /\ daily.rows[k].Attendance_Rate = 3333

\* C19: on a batch without records create_dataframe returns an empty
\* table, and get_all_employee_stats, get_summary_insights,
\* get_daily_attendance and get_day_wise_trends on that table return
\* without raising.
C19_EmptyBatchNeverRaises ==
    (df # NotCalled /\ data = <<>>) =>
        /\ df.rows = <<>>
        /\ all_stats # NotCalled => Returned(all_stats)
        /\ insights # NotCalled => Returned(insights)
        /\ daily # NotCalled => Returned(daily)
        /\ trends # NotCalled => Returned(trends)

\* the personnel number has an entry in the lookup tables
HasEntry(pn) ==
    /\ details_file = StationFile
    /\ pn \in {<<"1", "0", "0", "1">>, <<"1", "0", "0", "2">>}

\* C20: a personnel number without entry in the lookup tables does not make
\* get_all_employee_stats fail: the row of the employee is produced, with
\* "N/A" as designation and the empty string as station and manager; when
\* the lookup tables cannot be loaded the stats are returned, without the
\* three columns.
C20_LookupMissTolerated ==
    (all_stats # NotCalled /\ data # <<>>) =>
        /\ Returned(all_stats)
        /\ Len(all_stats.rows) = Len(data)
        /\ \A i \in 1..Len(data) :
             LET srow == all_stats.rows[i]
             IN  /\ srow.Employee = data[i].Employee
                 /\ srow.Personnel_Number = data[i].Personnel_Number
                 /\ srow.Total_Days =
                      Cardinality({j \in 1..df.day_columns :
                                      ~IsEmptyValue(df.rows[i].Days[j])})
                 /\ IF details_file = StationFile
                    THEN ~HasEntry(srow.Personnel_Number) =>
                            /\ srow.Designation = NA
                            /\ srow.Station = <<>>
                            /\ srow.AM = <<>>
                    ELSE DOMAIN srow \cap {"Designation", "Station", "AM"} = {}

C20_Witness ==
    /\ Returned(all_stats)
    /\ details_file = StationFile
    /\ Len(data) = 3
    /\ all_stats.rows[1].Designation = <<"S", "C">>
    /\ all_stats.rows[3].Personnel_Number = <<"9", "9", "9", "9">>
    /\ all_stats.rows[3].Designation = NA
    /\ all_stats.rows[3].Station = <<>>
    /\ all_stats.rows[3].Total_Days > 0

---------------------------------------------------------------------------
(* src/app.py, create_night_shift_report: the details of one employee of   *)
(* the report (department None or "Stations")                              *)

\* dict.get(key, default)
dict_get(table, key, default) ==
    IF key \in DOMAIN table THEN table[key] ELSE default

\* lines 327-348: emp_id is the personnel number cut at its first '.' and
\* stripped, and every table is read with emp_id
night_shift_details(emp_row, emp_details) ==
    LET raw_emp_id == str(emp_row.Personnel_Number)
        emp_id == clean_id(raw_emp_id)
    IN  [Employee |-> emp_row.Employee,
         Personnel_Number |-> emp_id,
         Designation |->
            IF emp_details # NoDetails
            THEN dict_get(emp_details.designation, emp_id, NA)
            ELSE NA,
         Station |->
            IF emp_details # NoDetails
            THEN dict_get(emp_details.station, emp_id, <<>>)
            ELSE <<>>,
         AM |->
            IF emp_details # NoDetails
            THEN dict_get(emp_details.am, emp_id, <<>>)
            ELSE <<>>]

---------------------------------------------------------------------------
(* Properties of the lookups by personnel number *)

\* the lookup tables of the workbook of the state
LoadedDetails == load_employee_details(details_file)

\* C21 (as claimed): an employee whose cleaned personnel number is a key of
\* the lookup tables gets that key's designation, station and manager, in
\* the rows of get_all_employee_stats and in the night shift report
C21_LookupsKeyedByCleanedNumber ==
    (Returned(all_stats) /\ LoadedDetails # NoDetails) =>
        \A i \in 1..Len(all_stats.rows) :
            LET key == clean_id(str(analyzer.rows[i].Personnel_Number))
                night == night_shift_details(analyzer.rows[i], LoadedDetails)
            IN  key \in DOMAIN LoadedDetails.designation =>
                    /\ night.Designation = LoadedDetails.designation[key]
                    /\ night.Station = LoadedDetails.station[key]
                    /\ night.AM = LoadedDetails.am[key]
                    /\ all_stats.rows[i].Designation =
                           LoadedDetails.designation[key]
                    /\ all_stats.rows[i].Station = LoadedDetails.station[key]
                    /\ all_stats.rows[i].AM = LoadedDetails.am[key]

---------------------------------------------------------------------------
(* The categories of a parsed code exclude each other *)

\* the categories the parsed cell is in
CategoriesOf(p) ==
    {kind \in {"weekly_off", "leave", "absent", "shift"} :
        CASE kind = "weekly_off" -> p.is_weekly_off
          [] kind = "leave" -> p.is_leave
          [] kind = "absent" -> p.is_absent
          [] kind = "shift" -> p.shift # "None"}

\* C26: whatever the cell, the result of parse_attendance_code is in at most
\* one of the categories weekly off, leave, absent and shift, and it has a
\* station only when it has a shift
C26_AtMostOneCategory ==
    Returned(parsed) =>
        /\ Cardinality(CategoriesOf(parsed)) <= 1
        /\ parsed.station # PyNone => parsed.shift # "None"

\* a leave code that begins with the shift letter E was parsed as a leave
\* without a shift
C26_Witness ==
    /\ Returned(parsed)
    /\ startswith(upper(strip(str(code_str))), <<"E", "L">>)
    /\ CategoriesOf(parsed) = {"leave"}

---------------------------------------------------------------------------
(* Properties of the threshold counts of get_summary_insights *)

\* the employees of the analyzer without an expected working day
IdleEmployees ==
    {i \in 1..Len(analyzer.rows) :
        ExpectedWorkingDays(calculate_employee_stats(analyzer.rows[i])) = 0}

\* C30: in the insights get_summary_insights returns, every employee
\* without an expected working day has the rate 0, is counted below 80 and
\* below 90 percent and is not counted as perfect; the count below 80 is at
\* most the count below 90, which is at most the number of employees, and
\* the count of perfect attendance is at most the count of 95 and above
C30_ThresholdCounts ==
    Returned(insights) =>
        /\ \A i \in IdleEmployees :
               calculate_employee_stats(analyzer.rows[i]).Attendance_Rate.num
                   = 0
        /\ insights.Employees_Below_80_Percent >= Cardinality(IdleEmployees)
        /\ insights.Employees_Below_90_Percent >= Cardinality(IdleEmployees)
        /\ insights.Employees_Perfect_Attendance
               <= insights.Total_Employees - Cardinality(IdleEmployees)
        /\ insights.Employees_Below_80_Percent
               <= insights.Employees_Below_90_Percent
        /\ insights.Employees_Below_90_Percent <= insights.Total_Employees
        /\ insights.Employees_Perfect_Attendance
               <= insights.Employees_Above_95_Percent

\* the insights of a batch with an employee without an expected working day
\* and an employee who was present on every expected day
C30_Witness ==
    /\ Returned(insights)
    /\ IdleEmployees # {}
    /\ insights.Employees_Perfect_Attendance > 0
    /\ insights.Employees_Below_80_Percent < insights.Total_Employees

---------------------------------------------------------------------------
(* AttendanceAnalyzer.get_shift_analysis *)

\* the cells of the table, column by column
cells_of(an) ==
    {<<e, i>> : e \in 1..Len(an.rows), i \in 1..an.day_columns}

\* the shift counts over the cells that have a station
shift_counts_of_stationed(an) ==
    [c \in SHIFT_CODES |->
        Cardinality({x \in cells_of(an) :
            LET p == parse_attendance_code(an.rows[x[1]].days[x[2]])
            IN  p.shift = c /\ p.station # PyNone})]

\* lines 446-452: shift_counts, 0 standing for a shift without an entry
shift_counts_of(an) ==
    [c \in SHIFT_CODES |->
        Cardinality({x \in cells_of(an) :
            parse_attendance_code(an.rows[x[1]].days[x[2]]).shift = c})]

\* line 457: the order of the rows
SHIFT_ORDER == <<"M", "E", "N", "G">>

\* lines 454-467: a row per shift when any shift was counted, no row
\* otherwise; Percentage is rounded to two decimals, in hundredths
shift_distribution(shift_counts) ==
    LET total_shifts == sum([k \in 1..4 |-> shift_counts[SHIFT_ORDER[k]]])
    IN  [rows |->
            IF total_shifts > 0
            THEN [k \in 1..4 |->
                    [Shift_Code |-> SHIFT_ORDER[k],
                     Shift_Name |-> SHIFT_NAMES[SHIFT_ORDER[k]],
                     Count |-> shift_counts[SHIFT_ORDER[k]],
                     Percentage |->
                        Round2(Rate(shift_counts[SHIFT_ORDER[k]] * 100,
                                    total_shifts))]]
            ELSE <<>>]

\* lines 444-467
get_shift_analysis(an) == shift_distribution(shift_counts_of(an))

---------------------------------------------------------------------------
(* Specification of the totals of a batch: the table is built, an analyzer *)
(* is built on it, and the daily trend, the summary and the shift analysis *)
(* are called in any order                                                 *)

InitTotals ==
    /\ variant = "roster"
    /\ details_file = NoFile
    /\ \E n \in 0..MaxEmployees :
         \E codes \in [1..n -> DayRows] :
            data = [i \in 1..n |-> EmployeeRecord(i, codes[i])]
    /\ df = NotCalled
    /\ analyzer = NotCalled
    /\ all_stats = NotCalled
    /\ daily = NotCalled
    /\ insights = NotCalled
    /\ trends = NotCalled
    /\ shift_dist = NotCalled
    /\ df_again = NotCalled
    /\ raw_tables = <<>>
    /\ all_data = NotCalled
    /\ code_str = <<>>
    /\ parsed = NotCalled
    /\ row = <<>>
    /\ stats = NotCalled
    /\ report_df = [columns |-> <<>>, rows |-> <<>>]
    /\ set_order = <<>>
    /\ report = NotCalled
    /\ summary = NotCalled
    /\ daily_trends = NotCalled
    /\ shift_analysis = NotCalled
    /\ employee_details = NotCalled
    /\ pdf = <<>>
    /\ extract_calls = 0
    /\ heap = <<>>
    /\ self_df = 0

GetShiftAnalysis ==
    /\ analyzer # NotCalled
    /\ shift_dist = NotCalled
    /\ shift_dist' = get_shift_analysis(analyzer)
    /\ UNCHANGED <<code_str, parsed, row, stats, variant, data, df, df_again,
                   raw_tables, all_data, details_file, analyzer, all_stats,
                   daily, insights, trends, report_df, set_order, report,
                   summary, daily_trends, shift_analysis, employee_details,
                   pdf, extract_calls, heap, self_df>>

NextTotals ==
    \/ CreateDataframe
    \/ NewAnalyzer
    \/ GetDailyAttendance
    \/ GetSummaryInsights
    \/ GetShiftAnalysis

SpecTotals == InitTotals /\ [][NextTotals]_vars

---------------------------------------------------------------------------
(* Properties of the totals *)

\* the sum of a column of the daily trend
DailyTotal(column) ==
    sum([k \in 1..Len(daily.rows) |-> daily.rows[k][column]])

\* C27: the sums over the daily trend of Present, Absent, On_Leave and
\* Weekly_Off are the totals of present, absent, leave and weekly-off days
\* of the summary, and the counts of the shift analysis add up to the total
\* of present days
C27_AggregationsAgree ==
    (Returned(daily) /\ Returned(insights) /\ Returned(shift_dist)) =>
        /\ DailyTotal("Present") = insights.Total_Present_Days
        /\ DailyTotal("Absent") = insights.Total_Absent_Days
        /\ DailyTotal("On_Leave") = insights.Total_Leave_Days
        /\ DailyTotal("Weekly_Off") = insights.Total_Weekly_Offs
        /\ sum([k \in 1..Len(shift_dist.rows) |-> shift_dist.rows[k].Count])
               = insights.Total_Present_Days

\* the three reports of a batch with a day without any entry, two present
\* days or more, an absence, a leave and a weekly off
C27_Witness ==
    /\ Returned(daily) /\ Returned(insights) /\ Returned(shift_dist)
    /\ Len(daily.rows) < analyzer.day_columns
    /\ insights.Total_Present_Days >= 2
    /\ \E e \in 1..Len(analyzer.rows) : analyzer.rows[e].days[1] = <<"M">>
    /\ insights.Total_Absent_Days > 0
    /\ insights.Total_Leave_Days > 0
    /\ insights.Total_Weekly_Offs > 0

---------------------------------------------------------------------------
(* src/report_generator.py, TrainOperationsRosterReportGenerator: the      *)
(* classification of a cell                                                *)

\* lines 22-24
RRTS_SHIFTS ==
    {<<"S", "R">>, <<"W", "D", "R">>, <<"R", "R">>,
     <<"H", "S", "B", " ", "A">>, <<"H", "S", "B", " ", "B">>}

MRTS_SHIFTS ==
    {<<"S", "M">>, <<"W", "D", "M">>, <<"H", "S", "B", " ", "M">>}

ROSTER_LEAVE_CODES ==
    {<<"C", "L">>, <<"S", "L">>, <<"W", "L">>, <<"C", "O">>, <<"E", "L">>,
     <<"A", "P">>, <<"L", "M">>, <<"W", "O">>}

UpperLetters == {LowerToUpper[c] : c \in DOMAIN LowerToUpper}

\* sub in s
contains(s, sub) ==
    \E i \in 1..(Len(s) - Len(sub) + 1) : SubSeq(s, i, i + Len(sub) - 1) = sub

\* the match of r'([A-Za-z\s]+-?\d+)' at the start of s: its length, 0 when
\* there is none (the class run is followed by a hyphen or a digit, none of
\* which is in the class, so the longest run is the only candidate)
shift_code_match(s) ==
    LET run == RunLength(s, 1, Letters \cup Whitespace)
        hyphen == IF IsCharAt(s, run + 1, "-") THEN 1 ELSE 0
        digits == RunLength(s, run + hyphen + 1, Digits)
    IN  IF run >= 1 /\ digits >= 1 THEN run + hyphen + digits ELSE 0

\* lines 92-94: parts[0][:5] followed by the stripped rest of parts[0], where
\* parts is code.split('-')
hsb_code(code) ==
    LET part == IF find(code, "-") = 0 THEN code
                ELSE SubSeq(code, 1, find(code, "-") - 1)
    IN  SubSeq(part, 1, IF Len(part) < 5 THEN Len(part) ELSE 5)
        \o strip(SubSeq(part, 6, Len(part)))

\* _extract_shift_code comparing the prefix in upper case
_extract_shift_code_any_case(shift_val) ==
    IF ~truthy(shift_val) \/ strip(str(shift_val)) = <<>> THEN PyNone
    ELSE LET shift_str ==
                 strip(remove(replace_char(strip(str(shift_val)), "\n", " "),
                              <<"\r">>))
             code == strip(SubSeq(shift_str, 1, shift_code_match(shift_str)))
         IN  IF shift_code_match(shift_str) = 0 THEN PyNone
             ELSE IF startswith(code, <<"H", "S", "B">>) THEN hsb_code(code)
             ELSE IF RunLength(code, 1, Letters) >= 1
                  THEN upper(SubSeq(code, 1, RunLength(code, 1, Letters)))
                  ELSE PyNone

\* lines 75-99; PyNone stands for the None the function returns
_extract_shift_code(shift_val) ==
    IF ~truthy(shift_val) \/ strip(str(shift_val)) = <<>> THEN PyNone
    ELSE LET shift_str ==
                 strip(remove(replace_char(strip(str(shift_val)), "\n", " "),
                              <<"\r">>))
             code == strip(SubSeq(shift_str, 1, shift_code_match(shift_str)))
         IN  IF shift_code_match(shift_str) = 0 THEN PyNone
             ELSE IF startswith(code, <<"H", "S", "B">>) THEN hsb_code(code)
             ELSE IF RunLength(code, 1, UpperLetters) >= 1
                  THEN SubSeq(code, 1, RunLength(code, 1, UpperLetters))
                  ELSE PyNone

\* _is_leave with the exact comparison only
_is_leave_exact(code) ==
    IF ~truthy(code) \/ strip(str(code)) = <<>> THEN FALSE
    ELSE upper(strip(str(code))) \in ROSTER_LEAVE_CODES

\* lines 101-116
_is_leave(code) ==
    IF ~truthy(code) \/ strip(str(code)) = <<>> THEN FALSE
    ELSE LET text == upper(strip(str(code)))
         IN  \/ text \in ROSTER_LEAVE_CODES
             \/ \E leave_code \in ROSTER_LEAVE_CODES :
                    contains(text, leave_code)

\* lines 118-128
_categorize_shift(shift_code) ==
    IF ~truthy(shift_code) THEN "Other Shifts"
    ELSE IF shift_code \in RRTS_SHIFTS THEN "Working Shift RRTS"
    ELSE IF shift_code \in MRTS_SHIFTS THEN "Working Shift MRTS"
    ELSE "Other Shifts"

\* line 133: 'Unknown'
UNKNOWN == <<"U", "n", "k", "n", "o", "w", "n">>

\* line 146: code_str[:2]
first_two(s) == SubSeq(s, 1, IF Len(s) < 2 THEN Len(s) ELSE 2)

\* _extract_leave_type trying the codes in alphabetical order
_extract_leave_type_sorted(order, code) ==
    IF ~truthy(code) \/ strip(str(code)) = <<>> THEN UNKNOWN
    ELSE LET text == upper(strip(str(code)))
             sorted == <<(<<"A", "P">>), (<<"C", "L">>), (<<"C", "O">>),
                         (<<"E", "L">>), (<<"L", "M">>), (<<"S", "L">>),
                         (<<"W", "L">>), (<<"W", "O">>)>>
             found == {k \in 1..Len(sorted) : contains(text, sorted[k])}
         IN  IF text \in ROSTER_LEAVE_CODES THEN text
             ELSE IF found # {}
                  THEN sorted[CHOOSE k \in found : \A j \in found : k <= j]
             ELSE first_two(text)

\* lines 130-146; order is the order in which the process iterates the set
\* LEAVE_CODES: all its codes have the same length, and sorted(..., key=len,
\* reverse=True) keeps codes of the same length in the order of the set
_extract_leave_type(order, code) ==
    IF ~truthy(code) \/ strip(str(code)) = <<>> THEN UNKNOWN
    ELSE LET text == upper(strip(str(code)))
             found == {k \in 1..Len(order) : contains(text, order[k])}
         IN  IF text \in ROSTER_LEAVE_CODES THEN text
             ELSE IF found # {}
                  THEN order[CHOOSE k \in found : \A j \in found : k <= j]
             ELSE first_two(text)

---------------------------------------------------------------------------
(* TrainOperationsRosterReportGenerator: the tables.  The generator's      *)
(* self.df has a column 'Shift (dd.mm)' per date, given by its day and     *)
(* month, and each row has a cell per column in `shifts`                   *)

\* lines 51-60: the sort key of the column 'Shift (dd.mm)'
_extract_date_from_col(col) == col.day * 100 + col.month

\* lines 43-44: the positions of the shift columns, sorted by their key;
\* columns with the same key keep their order
_identify_shift_columns(columns) ==
    LET before(j, i) ==
            \/ _extract_date_from_col(columns[j])
                   < _extract_date_from_col(columns[i])
            \/ /\ _extract_date_from_col(columns[j])
                      = _extract_date_from_col(columns[i])
               /\ j < i
        rank(i) == Cardinality({j \in 1..Len(columns) : before(j, i)}) + 1
    IN  [k \in 1..Len(columns) |->
            CHOOSE i \in 1..Len(columns) : rank(i) = k]

\* lines 26-39: the generator keeps the table it is given
TrainOperationsRosterReportGenerator(frame) ==
    [rows |-> frame.rows,
     columns |-> frame.columns,
     day_cols |-> _identify_shift_columns(frame.columns)]

\* str(row[col]).strip()
val_of(gen, e, col) == strip(str(gen.rows[e].shifts[col]))

\* the cells the loops visit: the rows, and the day columns of each
day_cells(gen) ==
    {<<e, gen.day_cols[k]>> : e \in 1..Len(gen.rows), k \in 1..Len(gen.day_cols)}

\* kind_blank_first where the text of a missing cell is no kind at all
kind_blank_first_missing_skipped(val) ==
    IF val = <<>> THEN "blank"
    ELSE IF val = str(NaN) \/ val = str(PyNone) THEN "missing"
    ELSE IF _is_leave(val) THEN "leave"
    ELSE "shift"

\* lines 170-175 and 199-206: blank, else leave, else shift
kind_blank_first(val) ==
    IF val = <<>> THEN "blank"
    ELSE IF _is_leave(val) THEN "leave"
    ELSE "shift"

\* lines 235-238 and 276-280: leave, else shift when not blank
kind_leave_first(val) ==
    IF _is_leave(val) THEN "leave"
    ELSE IF val # <<>> THEN "shift"
    ELSE "blank"

\* the number of cells of the set whose value has the kind
count_kind(gen, cells, kind) ==
    Cardinality({x \in cells :
                    kind_blank_first(val_of(gen, x[1], x[2])) = kind})

\* lines 152-159
summary_head(gen) ==
    [Total_Employees |-> Len(gen.rows),
     Period |->
        IF gen.columns # <<>>
        THEN [from |-> gen.columns[1], to |-> gen.columns[Len(gen.columns)]]
        ELSE [days |-> Len(gen.day_cols)]]

\* lines 177-179
summary_counts(total_shifts, total_leaves, blank) ==
    [Total_Shifts |-> total_shifts,
     Total_Leaves |-> total_leaves,
     Total_Records |-> total_shifts + total_leaves + blank]

\* lines 148-181
generate_summary_statistics(gen) ==
    summary_head(gen)
    @@ summary_counts(count_kind(gen, day_cells(gen), "shift"),
                      count_kind(gen, day_cells(gen), "leave"),
                      count_kind(gen, day_cells(gen), "blank"))

\* the leave types of the cells of the set, and the count of each
leave_tally(gen, order, cells) ==
    LET leave_cells ==
            {x \in cells : _is_leave(val_of(gen, x[1], x[2]))}
        type_of(x) == _extract_leave_type(order, val_of(gen, x[1], x[2]))
    IN  [t \in {type_of(x) : x \in leave_cells} |->
            Cardinality({x \in leave_cells : type_of(x) = t})]

\* lines 187-215: the record of one day column
day_record(gen, order, col) ==
    [Day |-> gen.columns[col],
     Total_Shifts |->
        count_kind(gen, {<<e, col>> : e \in 1..Len(gen.rows)}, "shift"),
     leaves |->
        leave_tally(gen, order, {<<e, col>> : e \in 1..Len(gen.rows)}),
     Blank |->
        count_kind(gen, {<<e, col>> : e \in 1..Len(gen.rows)}, "blank")]

\* lines 183-217
generate_daily_trends(gen, order) ==
    [rows |-> [k \in 1..Len(gen.day_cols) |->
                  day_record(gen, order, gen.day_cols[k])]]

\* the number of cells of the set counted as a shift of the category
count_category(gen, cells, category) ==
    Cardinality({x \in cells :
        /\ kind_leave_first(val_of(gen, x[1], x[2])) = "shift"
        /\ _categorize_shift(_extract_shift_code(val_of(gen, x[1], x[2])))
               = category})

\* lines 221-225, 239-241 and 284-289: the three counts of shifts
category_counts(gen, cells) ==
    [RRTS |-> count_category(gen, cells, "Working Shift RRTS"),
     MRTS |-> count_category(gen, cells, "Working Shift MRTS"),
     Other |-> count_category(gen, cells, "Other Shifts")]

\* lines 219-243
generate_shift_analysis(gen, order) ==
    [shift_analysis |-> category_counts(gen, day_cells(gen)),
     leave_analysis |-> leave_tally(gen, order, day_cells(gen))]

\* lines 272-279: the leave columns of one employee; all_leave_types are the
\* types of lines 250-256, and a type that is no column is not counted
employee_leaves(all_leave_types, tally) ==
    [t \in all_leave_types |-> IF t \in DOMAIN tally THEN tally[t] ELSE 0]

\* sum(tally.values()): the pairs of a key and a number up to its count
tally_total(tally) ==
    Cardinality(UNION {{<<t, k>> : k \in 1..tally[t]} : t \in DOMAIN tally})

\* lines 292-298
total_of(counts, leaves) ==
    counts.RRTS + counts.MRTS + counts.Other + tally_total(leaves)

\* the record of an employee without the leave tallies in its Total
employee_record_shifts_total(emp_row, counts, leaves) ==
    [Employee |-> emp_row.Employee,
     Personnel_Number |-> emp_row.Personnel_Number,
     shifts |-> counts,
     leaves |-> leaves,
     Total |-> counts.RRTS + counts.MRTS + counts.Other]

\* lines 259-298: the record of one employee
employee_record(emp_row, counts, leaves) ==
    [Employee |-> emp_row.Employee,
     Personnel_Number |-> emp_row.Personnel_Number,
     shifts |-> counts,
     leaves |-> leaves,
     Total |-> total_of(counts, leaves)]

\* the day cells of the employee
cells_of_employee(gen, e) == {<<e, gen.day_cols[k]>> : k \in 1..Len(gen.day_cols)}

\* lines 245-302
generate_employee_details(gen, order) ==
    [rows |->
        [e \in 1..Len(gen.rows) |->
            employee_record(
                gen.rows[e],
                category_counts(gen, cells_of_employee(gen, e)),
                employee_leaves(
                    DOMAIN leave_tally(gen, order, day_cells(gen)),
                    leave_tally(gen, order, cells_of_employee(gen, e))))]]

---------------------------------------------------------------------------
(* Specification of the roster report: a generator is built on a table and *)
(* its four tables are generated in any order                              *)

\* most employees of a report table
MaxCrew == 2

\* two orders in which a process may iterate the set LEAVE_CODES: the order
\* depends on the hashes of the codes, which differ from process to process
LeaveCodeOrders ==
    {<<(<<"A", "P">>), (<<"C", "L">>), (<<"C", "O">>), (<<"E", "L">>),
       (<<"L", "M">>), (<<"S", "L">>), (<<"W", "L">>), (<<"W", "O">>)>>,
     <<(<<"W", "O">>), (<<"W", "L">>), (<<"S", "L">>), (<<"L", "M">>),
       (<<"E", "L">>), (<<"C", "O">>), (<<"C", "L">>), (<<"A", "P">>)>>}

\* the columns 'Shift (18.01)' and 'Shift (02.02)', in the order of the table
ShiftColumns == <<[day |-> 18, month |-> 1], [day |-> 2, month |-> 2]>>

\* the two cells of an employee: duties of the three families, leaves, a
\* code with two leave codes in it, a blank cell and a missing one
ShiftRows ==
    {<<(<<"R", "R", "-", "0", "1">>), (<<"C", "L">>)>>,
     <<(<<"L", "M", "C", "L">>), (<<>>)>>,
     <<(<<"H", "S", "B", " ", "M", "-", "2">>), NaN>>,
     <<(<<" ">>), (<<"s", "m", "-", "0", "5">>)>>,
     <<(<<"s", "l", " ">>), (<<"L", "M", "C", "L">>)>>,
     <<(<<"W", "D", "R", "-", "1", "1", "\n", "0", "6", ":", "0", "0">>),
       (<<"X">>)>>}

\* the row of the e-th employee of the table
ShiftRow(e, cells) ==
    [Employee |-> EmployeeNames[e],
     Personnel_Number |-> PersonnelNumbers[e],
     shifts |-> cells]

InitReport ==
    /\ \E n \in 0..MaxCrew :
         \E cells \in [1..n -> ShiftRows] :
            report_df = [columns |-> ShiftColumns,
                         rows |-> [e \in 1..n |-> ShiftRow(e, cells[e])]]
    /\ set_order \in LeaveCodeOrders
    /\ code_str = <<>>
    /\ parsed = NotCalled
    /\ row = <<>>
    /\ stats = NotCalled
    /\ variant = "roster"
    /\ data = <<>>
    /\ df = NotCalled
    /\ df_again = NotCalled
    /\ raw_tables = <<>>
    /\ all_data = NotCalled
    /\ details_file = [exists |-> FALSE]
    /\ analyzer = NotCalled
    /\ all_stats = NotCalled
    /\ daily = NotCalled
    /\ insights = NotCalled
    /\ trends = NotCalled
    /\ shift_dist = NotCalled
    /\ report = NotCalled
    /\ summary = NotCalled
    /\ daily_trends = NotCalled
    /\ shift_analysis = NotCalled
    /\ employee_details = NotCalled
    /\ pdf = <<>>
    /\ extract_calls = 0
    /\ heap = <<>>
    /\ self_df = 0

NewReportGenerator ==
    /\ report = NotCalled
    /\ report' = TrainOperationsRosterReportGenerator(report_df)
    /\ UNCHANGED <<code_str, parsed, row, stats, variant, data, df, df_again,
                   raw_tables, all_data, details_file, analyzer, all_stats,
                   daily, insights, trends, shift_dist, report_df, set_order,
                   summary, daily_trends, shift_analysis, employee_details,
                   pdf, extract_calls, heap, self_df>>

GenerateSummaryStatistics ==
    /\ report # NotCalled
    /\ summary = NotCalled
    /\ summary' = generate_summary_statistics(report)
    /\ UNCHANGED <<code_str, parsed, row, stats, variant, data, df, df_again,
                   raw_tables, all_data, details_file, analyzer, all_stats,
                   daily, insights, trends, shift_dist, report_df, set_order,
                   report, daily_trends, shift_analysis, employee_details,
                   pdf, extract_calls, heap, self_df>>

GenerateDailyTrends ==
    /\ report # NotCalled
    /\ daily_trends = NotCalled
    /\ daily_trends' = generate_daily_trends(report, set_order)
    /\ UNCHANGED <<code_str, parsed, row, stats, variant, data, df, df_again,
                   raw_tables, all_data, details_file, analyzer, all_stats,
                   daily, insights, trends, shift_dist, report_df, set_order,
                   report, summary, shift_analysis, employee_details, pdf,
                   extract_calls, heap, self_df>>

GenerateShiftAnalysis ==
    /\ report # NotCalled
    /\ shift_analysis = NotCalled
    /\ shift_analysis' = generate_shift_analysis(report, set_order)
    /\ UNCHANGED <<code_str, parsed, row, stats, variant, data, df, df_again,
                   raw_tables, all_data, details_file, analyzer, all_stats,
                   daily, insights, trends, shift_dist, report_df, set_order,
                   report, summary, daily_trends, employee_details, pdf,
                   extract_calls, heap, self_df>>

GenerateEmployeeDetails ==
    /\ report # NotCalled
    /\ employee_details = NotCalled
    /\ employee_details' = generate_employee_details(report, set_order)
    /\ UNCHANGED <<code_str, parsed, row, stats, variant, data, df, df_again,
                   raw_tables, all_data, details_file, analyzer, all_stats,
                   daily, insights, trends, shift_dist, report_df, set_order,
                   report, summary, daily_trends, shift_analysis, pdf,
                   extract_calls, heap, self_df>>

NextReport ==
    \/ NewReportGenerator
    \/ GenerateSummaryStatistics
    \/ GenerateDailyTrends
    \/ GenerateShiftAnalysis
    \/ GenerateEmployeeDetails

SpecReport == InitReport /\ [][NextReport]_vars

---------------------------------------------------------------------------
(* Properties of the roster report *)

\* the text of the cell of employee e in the column col of the table
ShiftText(e, col) == strip(str(report_df.rows[e].shifts[col]))

\* the number of columns 'Shift (...)' of the table
ShiftColumnCount == Len(report_df.columns)

\* C22: in the table of generate_employee_details the Total of every
\* employee is the sum of the employee's three duty-family tallies and leave
\* tallies, and it is the number of the employee's day cells that are not
\* blank
C22_TotalIsSumOfTallies ==
    Returned(employee_details) =>
        \A e \in 1..Len(employee_details.rows) :
            LET r == employee_details.rows[e]
            IN  /\ r.Total = r.shifts.RRTS + r.shifts.MRTS + r.shifts.Other
                                 + tally_total(r.leaves)
                /\ r.Total = Cardinality({col \in 1..ShiftColumnCount :
                                             ShiftText(e, col) # <<>>})

\* the details of a table with an employee who has a duty and a leave, and
\* an employee with a blank cell
C22_Witness ==
    /\ Returned(employee_details)
    /\ \E e \in 1..Len(employee_details.rows) :
          /\ employee_details.rows[e].Total = 2
          /\ tally_total(employee_details.rows[e].leaves) = 1
    /\ \E e \in 1..Len(employee_details.rows) :
          employee_details.rows[e].Total < ShiftColumnCount

\* C28 (as claimed): the leave types a code is tallied under are those of
\* every other process, whatever the order in which it iterates LEAVE_CODES,
\* and they are the same in the daily trends, the shift and leave
\* distribution and the employee details
C28_LeaveTypeFunctionOfCode ==
    /\ Returned(shift_analysis) =>
          \A order \in LeaveCodeOrders :
              generate_shift_analysis(report, order).leave_analysis
                  = shift_analysis.leave_analysis
    /\ (Returned(shift_analysis) /\ Returned(daily_trends)) =>
          \A k \in 1..Len(daily_trends.rows) :
              DOMAIN daily_trends.rows[k].leaves
                  \subseteq DOMAIN shift_analysis.leave_analysis
    /\ (Returned(shift_analysis) /\ Returned(employee_details)) =>
          \A e \in 1..Len(employee_details.rows) :
              DOMAIN employee_details.rows[e].leaves
                  = DOMAIN shift_analysis.leave_analysis

\* C29: Total Records is the number of employees times the number of day
\* columns; Total Shifts is the sum of the three duty-family counts of
\* generate_shift_analysis and Total Leaves the sum of its leave counts; in
\* every row of generate_daily_trends Total Shifts, the leave counts and
\* Blank add up to the number of employees
C29_TablesConsistent ==
    /\ Returned(summary) =>
          summary.Total_Records = Len(report_df.rows) * ShiftColumnCount
    /\ (Returned(summary) /\ Returned(shift_analysis)) =>
          /\ summary.Total_Shifts =
                 shift_analysis.shift_analysis.RRTS
                 + shift_analysis.shift_analysis.MRTS
                 + shift_analysis.shift_analysis.Other
          /\ summary.Total_Leaves = tally_total(shift_analysis.leave_analysis)
    /\ Returned(daily_trends) =>
          /\ Len(daily_trends.rows) = ShiftColumnCount
          /\ \A k \in 1..Len(daily_trends.rows) :
                 daily_trends.rows[k].Total_Shifts
                 + tally_total(daily_trends.rows[k].leaves)
                 + daily_trends.rows[k].Blank
                     = Len(report_df.rows)

\* the three tables of a table with a duty, a leave, a blank cell and a
\* missing cell
C29_Witness ==
    /\ Returned(summary) /\ Returned(shift_analysis) /\ Returned(daily_trends)
    /\ summary.Total_Shifts > 0
    /\ summary.Total_Leaves > 0
    /\ summary.Total_Records > summary.Total_Shifts + summary.Total_Leaves
    /\ \E e \in 1..Len(report_df.rows) : report_df.rows[e].shifts[2] = NaN

---------------------------------------------------------------------------
(* Specification of the classification of one cell: the tables of a report *)
(* table with one employee and one day column                              *)

\* longest text that follows the code in a cell
MaxTail == 2

\* the codes a cell starts with: the leave codes, codes that contain one,
\* the duty codes of the two families, one before a line break, and codes
\* of neither family
RosterTokens ==
    {<<>>, <<"C", "L">>, <<"S", "L">>, <<"W", "L">>, <<"C", "O">>,
     <<"E", "L">>, <<"A", "P">>, <<"L", "M">>, <<"W", "O">>, <<"c", "l">>,
     <<"L", "M", "C", "L">>, <<"X", "S", "L", "X">>, <<"R", "R">>,
     <<"S", "R">>, <<"W", "D", "R">>, <<"S", "M">>, <<"W", "D", "M">>,
     <<"s", "r">>, <<"R", "R", "X">>, <<"S", "R", "\n">>,
     <<"H", "S", "B">>, <<"H", "S", "B", " ", "A">>,
     <<"H", "S", "B", " ", "B">>, <<"H", "S", "B", " ", "M">>,
     <<"H", "S", "B", " ", "A", "B">>, <<"X">>}

\* the characters that follow the code: the hyphen and the digit of a duty
\* number, and the space that precedes a timing
TailChars == {"-", " ", "1"}

RosterTails == UNION {[1..n -> TailChars] : n \in 0..MaxTail}

\* what a cell of a day column may hold
RosterCells ==
    NonStrings \cup {token \o tail : token \in RosterTokens, tail \in RosterTails}

\* the column 'Shift (18.01)'
CellColumns == <<[day |-> 18, month |-> 1]>>

InitCell ==
    /\ \E cell \in RosterCells :
         report_df = [columns |-> CellColumns,
                      rows |-> <<ShiftRow(1, <<cell>>)>>]
    /\ set_order = CHOOSE order \in LeaveCodeOrders :
                       order[1] = <<"A", "P">>
    /\ variant = "roster"
    /\ code_str = <<>>
    /\ parsed = NotCalled
    /\ row = <<>>
    /\ stats = NotCalled
    /\ data = <<>>
    /\ df = NotCalled
    /\ df_again = NotCalled
    /\ raw_tables = <<>>
    /\ all_data = NotCalled
    /\ details_file = [exists |-> FALSE]
    /\ analyzer = NotCalled
    /\ all_stats = NotCalled
    /\ daily = NotCalled
    /\ insights = NotCalled
    /\ trends = NotCalled
    /\ shift_dist = NotCalled
    /\ report = NotCalled
    /\ summary = NotCalled
    /\ daily_trends = NotCalled
    /\ shift_analysis = NotCalled
    /\ employee_details = NotCalled
    /\ pdf = <<>>
    /\ extract_calls = 0
    /\ heap = <<>>
    /\ self_df = 0

SpecCell == InitCell /\ [][NextReport]_vars

---------------------------------------------------------------------------
(* Properties of the classification of one cell *)

\* the cell of the one employee and the one day column
TheCell == report_df.rows[1].shifts[1]

\* the upper-cased, stripped text of the cell
TheCellText == upper(strip(str(TheCell)))

\* the text is a leave code or has one in it
HasLeaveCode ==
    \E leave_code \in ROSTER_LEAVE_CODES :
        \/ TheCellText = leave_code
        \/ \E i \in 1..Len(TheCellText) :
               /\ i + Len(leave_code) - 1 <= Len(TheCellText)
               /\ SubSeq(TheCellText, i, i + Len(leave_code) - 1) = leave_code

\* the family the extracted prefix of the cell belongs to
FamilyOfPrefix ==
    LET prefix == _extract_shift_code(strip(str(TheCell)))
    IN  IF prefix \in RRTS_SHIFTS THEN "RRTS"
        ELSE IF prefix \in MRTS_SHIFTS THEN "MRTS"
        ELSE "Other"

\* C23: a cell that is not blank is counted as a leave, by every table of
\* the report, exactly when its upper-cased, stripped text is one of the
\* eight leave codes or contains one; any other cell that is not blank is
\* counted as a shift, and in the one family its extracted prefix is a
\* member of (Other when it is a member of neither set)
C23_LeaveOrOneFamily ==
    TheCellText # <<>> =>
        /\ Returned(summary) =>
              /\ summary.Total_Leaves = (IF HasLeaveCode THEN 1 ELSE 0)
              /\ summary.Total_Shifts = (IF HasLeaveCode THEN 0 ELSE 1)
        /\ Returned(daily_trends) =>
              /\ tally_total(daily_trends.rows[1].leaves)
                     = (IF HasLeaveCode THEN 1 ELSE 0)
              /\ daily_trends.rows[1].Total_Shifts
                     = (IF HasLeaveCode THEN 0 ELSE 1)
        /\ Returned(shift_analysis) =>
              /\ tally_total(shift_analysis.leave_analysis)
                     = (IF HasLeaveCode THEN 1 ELSE 0)
              /\ \A family \in {"RRTS", "MRTS", "Other"} :
                     shift_analysis.shift_analysis[family]
                         = (IF ~HasLeaveCode /\ family = FamilyOfPrefix
                            THEN 1 ELSE 0)
        /\ Returned(employee_details) =>
              /\ tally_total(employee_details.rows[1].leaves)
                     = (IF HasLeaveCode THEN 1 ELSE 0)
              /\ \A family \in {"RRTS", "MRTS", "Other"} :
                     employee_details.rows[1].shifts[family]
                         = (IF ~HasLeaveCode /\ family = FamilyOfPrefix
                            THEN 1 ELSE 0)

\* the distribution of a cell that holds a leave code inside a longer text
C23_Witness ==
    /\ Returned(shift_analysis)
    /\ TheCellText # <<>>
    /\ TheCellText \notin ROSTER_LEAVE_CODES
    /\ HasLeaveCode
    /\ tally_total(shift_analysis.leave_analysis) = 1

---------------------------------------------------------------------------
(* Specification of the extractor as an object: extract_tables and         *)
(* create_dataframe are called on it in any order, any number of times     *)

\* most pages of the PDF file
MaxPages == 2

\* most calls of extract_tables on one extractor
MaxExtractCalls == 2

\* the table of a page: with two employees, with one, and without any
PageTables ==
    {RosterTable,
     <<HEADER_DATES, HEADER_NUMBERS, ROW_ASHA>>,
     <<HEADER_DATES, HEADER_NUMBERS>>}

InitExtract ==
    /\ variant \in {"roster", "trip"}
    /\ \E n \in 0..MaxPages : pdf \in [1..n -> PageTables]
    /\ code_str = <<>>
    /\ parsed = NotCalled
    /\ row = <<>>
    /\ stats = NotCalled
    /\ data = <<>>
    /\ df = NotCalled
    /\ df_again = NotCalled
    /\ raw_tables = <<>>
    /\ all_data = NotCalled
    /\ details_file = [exists |-> FALSE]
    /\ analyzer = NotCalled
    /\ all_stats = NotCalled
    /\ daily = NotCalled
    /\ insights = NotCalled
    /\ trends = NotCalled
    /\ shift_dist = NotCalled
    /\ report_df = [columns |-> <<>>, rows |-> <<>>]
    /\ set_order = <<>>
    /\ report = NotCalled
    /\ summary = NotCalled
    /\ daily_trends = NotCalled
    /\ shift_analysis = NotCalled
    /\ employee_details = NotCalled
    /\ extract_calls = 0
    /\ heap = <<>>
    /\ self_df = 0

\* lines 23-30 / 170-177: the tables of every page are appended to
\* self.raw_tables, which is never emptied
extract_tables(tables, pages) == tables \o pages

\* lines 51-52 / 198-199: parse_attendance_data extracts the tables when
\* self.raw_tables is empty
tables_to_parse(tables, pages) ==
    IF tables = <<>> THEN extract_tables(tables, pages) ELSE tables

ExtractTables ==
    /\ extract_calls < MaxExtractCalls
    /\ raw_tables' = extract_tables(raw_tables, pdf)
    /\ extract_calls' = extract_calls + 1
    /\ UNCHANGED <<code_str, parsed, row, stats, variant, data, df, df_again,
                   all_data, details_file, analyzer, all_stats, daily,
                   insights, trends, shift_dist, report_df, set_order, report,
                   summary, daily_trends, shift_analysis, employee_details,
                   pdf, heap, self_df>>

\* lines 105-146 / 299-373: create_dataframe on the extractor, which parses
\* self.raw_tables
ExtractorCreateDataframe ==
    /\ raw_tables' = tables_to_parse(raw_tables, pdf)
    /\ all_data' = [records |-> parse_attendance_data(variant, raw_tables')]
    /\ df' = create_dataframe(variant, all_data'.records)
    /\ UNCHANGED <<code_str, parsed, row, stats, variant, data, df_again,
                   details_file, analyzer, all_stats, daily, insights, trends,
                   shift_dist, report_df, set_order, report, summary,
                   daily_trends, shift_analysis, employee_details, pdf,
                   extract_calls, heap, self_df>>

NextExtract == ExtractTables \/ ExtractorCreateDataframe

SpecExtract == InitExtract /\ [][NextExtract]_vars

---------------------------------------------------------------------------
(* Properties of the extractor as an object *)

\* the table of a single extract_tables followed by create_dataframe
SingleExtraction ==
    create_dataframe(variant, parse_attendance_data(variant, pdf))

\* C24 (as claimed): whatever calls of extract_tables and create_dataframe
\* came before, the table create_dataframe returns holds the records of a
\* single extract_tables followed by create_dataframe
C24_StatelessAcrossInvocations ==
    df # NotCalled => df = SingleExtraction

---------------------------------------------------------------------------
(* Specification of the analyzer's copy of its input: the tables live in   *)
(* memory by address, the caller keeps the address of the table it hands   *)
(* to the constructor, and the analyzer the address of its self.df         *)

\* most rows of the caller's table
MaxCopied == 2

\* most analyzers built on the caller's table
MaxRuns == 2

\* the address of the caller's table
CallerDf == 1

\* the day cells of a row as they are read from a workbook: codes with line
\* breaks and spaces around them, which the constructor cleans, and codes it
\* leaves as they are
CopyRows ==
    {<<(<<"W", "\n", "O">>), (<<"M">>)>>,
     <<(<<" ", "M", "\n">>), (<<>>)>>,
     <<(<<"S", "L">>), (<<"A", "B">>)>>,
     <<E_NASH, (<<"E", "\r">>)>>}

InitCopy ==
    /\ variant = "roster"
    /\ details_file = NoFile
    /\ \E n \in 0..MaxCopied :
         \E codes \in [1..n -> CopyRows] :
            data = [i \in 1..n |-> EmployeeRecord(i, codes[i])]
    /\ df = create_dataframe(variant, data)
    /\ heap = <<df>>
    /\ self_df = 0
    /\ code_str = <<>>
    /\ parsed = NotCalled
    /\ row = <<>>
    /\ stats = NotCalled
    /\ df_again = NotCalled
    /\ raw_tables = <<>>
    /\ all_data = NotCalled
    /\ analyzer = NotCalled
    /\ all_stats = NotCalled
    /\ daily = NotCalled
    /\ insights = NotCalled
    /\ trends = NotCalled
    /\ shift_dist = NotCalled
    /\ report_df = [columns |-> <<>>, rows |-> <<>>]
    /\ set_order = <<>>
    /\ report = NotCalled
    /\ summary = NotCalled
    /\ daily_trends = NotCalled
    /\ shift_analysis = NotCalled
    /\ employee_details = NotCalled
    /\ pdf = <<>>
    /\ extract_calls = 0

\* df.copy() that hands back the table itself
df_copy_shared(memory, ref) == [heap |-> memory, ref |-> ref]

\* line 124, df.copy(): a new table with the cells of the table at ref
df_copy(memory, ref) ==
    [heap |-> Append(memory, memory[ref]), ref |-> Len(memory) + 1]

\* lines 128-132: every cell of every day column replaced by its cleaned text
clean_day_columns(frame) ==
    [frame EXCEPT
        !.rows = [i \in 1..Len(frame.rows) |->
                     [frame.rows[i] EXCEPT
                         !.Days = [k \in 1..Len(frame.rows[i].Days) |->
                                      clean_cell(frame.rows[i].Days[k])]]]]

\* what the operations read of the analyzer: self.day_columns and the rows
\* of self.df
analyzer_at(memory, ref) ==
    [day_columns |-> memory[ref].day_columns,
     rows |->
        [i \in 1..Len(memory[ref].rows) |->
            [Employee |-> memory[ref].rows[i].Employee,
             Personnel_Number |-> memory[ref].rows[i].Personnel_Number,
             days |-> memory[ref].rows[i].Days]]]

\* lines 123-137: the constructor copies the caller's table and cleans the
\* day columns of self.df
NewAnalyzerOnCopy ==
    /\ Len(heap) <= MaxRuns
    /\ LET copied == df_copy(heap, CallerDf)
       IN  /\ heap' = [copied.heap EXCEPT
                          ![copied.ref] = clean_day_columns(@)]
           /\ self_df' = copied.ref
    /\ UNCHANGED <<code_str, parsed, row, stats, variant, data, df, df_again,
                   raw_tables, all_data, details_file, analyzer, all_stats,
                   daily, insights, trends, shift_dist, report_df, set_order,
                   report, summary, daily_trends, shift_analysis,
                   employee_details, pdf, extract_calls>>

AllEmployeeStatsOfCopy ==
    /\ self_df # 0
    /\ all_stats' =
          get_all_employee_stats(analyzer_at(heap, self_df), details_file)
    /\ UNCHANGED <<code_str, parsed, row, stats, variant, data, df, df_again,
                   raw_tables, all_data, details_file, analyzer, daily,
                   insights, trends, shift_dist, report_df, set_order, report,
                   summary, daily_trends, shift_analysis, employee_details,
                   pdf, extract_calls, heap, self_df>>

DailyAttendanceOfCopy ==
    /\ self_df # 0
    /\ daily' =
          get_daily_attendance(analyzer_at(heap, self_df))
    /\ UNCHANGED <<code_str, parsed, row, stats, variant, data, df, df_again,
                   raw_tables, all_data, details_file, analyzer, all_stats,
                   insights, trends, shift_dist, report_df, set_order, report,
                   summary, daily_trends, shift_analysis, employee_details,
                   pdf, extract_calls, heap, self_df>>

SummaryInsightsOfCopy ==
    /\ self_df # 0
    /\ insights' =
          get_summary_insights(analyzer_at(heap, self_df), details_file)
    /\ UNCHANGED <<code_str, parsed, row, stats, variant, data, df, df_again,
                   raw_tables, all_data, details_file, analyzer, all_stats,
                   daily, trends, shift_dist, report_df, set_order, report,
                   summary, daily_trends, shift_analysis, employee_details,
                   pdf, extract_calls, heap, self_df>>

DayWiseTrendsOfCopy ==
    /\ self_df # 0
    /\ trends' =
          get_day_wise_trends(analyzer_at(heap, self_df))
    /\ UNCHANGED <<code_str, parsed, row, stats, variant, data, df, df_again,
                   raw_tables, all_data, details_file, analyzer, all_stats,
                   daily, insights, shift_dist, report_df, set_order, report,
                   summary, daily_trends, shift_analysis, employee_details,
                   pdf, extract_calls, heap, self_df>>

ShiftAnalysisOfCopy ==
    /\ self_df # 0
    /\ shift_dist' =
          get_shift_analysis(analyzer_at(heap, self_df))
    /\ UNCHANGED <<code_str, parsed, row, stats, variant, data, df, df_again,
                   raw_tables, all_data, details_file, analyzer, all_stats,
                   daily, insights, trends, report_df, set_order, report,
                   summary, daily_trends, shift_analysis, employee_details,
                   pdf, extract_calls, heap, self_df>>

NextCopy ==
    \/ NewAnalyzerOnCopy
    \/ AllEmployeeStatsOfCopy
    \/ DailyAttendanceOfCopy
    \/ SummaryInsightsOfCopy
    \/ DayWiseTrendsOfCopy
    \/ ShiftAnalysisOfCopy

SpecCopy == InitCopy /\ [][NextCopy]_vars

---------------------------------------------------------------------------
(* Properties of the analyzer's copy of its input *)

\* C25: however many analyzers are built on the caller's table and
\* whichever of their operations are called in whatever order, the caller's
\* table holds what it held when it was handed over, and what an operation
\* returns is what it returns when it is the first call on a new analyzer
\* built on that table
C25_WorksOnOwnCopy ==
    /\ heap[CallerDf] = df
    /\ all_stats # NotCalled =>
          all_stats = get_all_employee_stats(AttendanceAnalyzer(df),
                                             details_file)
    /\ daily # NotCalled =>
          daily = get_daily_attendance(AttendanceAnalyzer(df))
    /\ insights # NotCalled =>
          insights = get_summary_insights(AttendanceAnalyzer(df),
                                          details_file)
    /\ trends # NotCalled =>
          trends = get_day_wise_trends(AttendanceAnalyzer(df))
    /\ shift_dist # NotCalled =>
          shift_dist = get_shift_analysis(AttendanceAnalyzer(df))

\* a second analyzer has been built on a table with a code the constructor
\* cleans, and operations have been called on it after others
C25_Witness ==
    /\ Len(heap) = 3
    /\ self_df = 3
    /\ heap[self_df] # heap[CallerDf]
    /\ daily # NotCalled
    /\ all_stats # NotCalled
    /\ shift_dist # NotCalled

===========================================================================
